---- MODULE Spec2Model ----
(***************************************************************************)
(* Model of the servo configuration tool's probe-side core:                *)
(*   - the outbound command ring (controller_commands.rs, send_command),   *)
(*   - the inbound oscilloscope ring drain and the capped sample window    *)
(*     (controller_interface.rs, controller_connection_task),              *)
(*   - the chunked typed memory access of stlink.rs,                       *)
(*   - the life cycle of the connection task.                              *)
(* Each part has its own specification over the shared variables; the      *)
(* operators that carry the code's arithmetic are shared between them.     *)
(***************************************************************************)
EXTENDS Integers, Sequences, FiniteSets, TLC

\* ------------------------------------------------------------------ bounds
MaxCap == 8
MaxAttempts == 9
MaxHeader == 3
MaxCalls == 2
MaxRing == 4
MaxProduced == 9
MaxAppended == 10004
MemBytes == 2400
MaxInputs == 3

\* Commands are told apart by a small tag; 0 is the content of a slot that
\* was never written.
Commands == {1, 2}

Min(a, b) == IF a < b THEN a ELSE b

\* ------------------------------------------------------------------ state
VARIABLES
    \* target memory: CommandBufferInfo header and the command slots
    cb_front, cb_back, cb_capacity, cb_data,
    \* send_command: position, header copy, argument, outcome of the last call
    sc_pc, command_buffer_info, sc_cmd, sc_result,
    \* history: commands published, commands firmware consumed (with the slot
    \* content it found), whether a pending slot was ever written over, calls
    sent, delivered, clobbered, attempts,
    \* target memory: Oscilloscope header (index, len) and the sample array
    osc_index, osc_len, ring,
    \* connection task: last_index and the locals of one drain (lines 291-312)
    last_index, d_pc, index, start_off, end_off, data,
    \* the shared sample window and its lock
    sample_buffer, sb_locked,
    \* history: samples produced, produced since the last header read, read by
    \* the host, whether the unread backlog ever reached the ring's length,
    \* samples appended to the window, last_index as the tick found it,
    \* whether the previous tick saw a wrapped index, whether firmware ever
    \* produced between a tick's header read and its array read
    produced, since_poll, fetched, overrun, appended, tick_last, prev_wrapped,
    raced,
    \* target memory as the probe addresses it: byte address (a multiple of 4)
    \* to the 32-bit word stored there
    mem,
    \* one typed read or write of stlink.rs: position, method, remote address
    \* of the first byte, size_of::<T>(), and the locals len, offset, buffer
    m_pc, m_op, m_addr, m_esize, m_len, m_offset, m_buffer,
    \* the value a read returned
    m_result,
    \* history: bytes asked for, memory before the call, the memory commands
    \* sent to the probe, whether a transfer failed or came back short
    m_base, m_size, mem0, wire, faulted,
    \* shared by the threads: the alive flag `running`, the intent queue; per
    \* STLink object (numbered as "Refresh Devices" makes them) its connected
    \* field and whether its handle field is Some; the number of the STLink in
    \* the device list; per task the STLink it was spawned with
    running, connected, handle, command_list, cur, link,
    \* history: how a drop of an STLink panicked ("none": none did)
    drop_panic,
    \* per spawned connection task: its position and its locals cmds,
    \* record_samples, osc and last_index
    pc, cmds, record_samples, osc, task_last_index,
    \* target memory: Oscilloscope.recording, ServoConfig (14 fields), and the
    \* mirrors in ControllerData
    osc_recording, cfg_mem, servo_config, servo_state,
    \* the probe and its USB link answer (or every transfer fails)
    link_ok,
    \* per task: `base` is bound (line 238 returned), the last load of the
    \* alive flag at line 254 returned false
    base_known, stop_seen,
    \* history: intents pushed, threads spawned, per task the position at
    \* which it panicked, the intents applied (by their number in the order
    \* of pushing) in the order of application
    pushes, sessions, died_at, applied,
    \* history, per task: the Disconnect button stored false in the alive flag
    \* while the thread was in a tick of its loop
    stop_raised,
    \* history: per task the last intent applied in this tick that wrote to
    \* ServoConfig (kind "none" when there was none); the memory writes the
    \* tasks have sent, each by the pointer of ControllerPointers it starts
    \* from, its byte offset from there and its size
    last_cfg, writes,
    \* history: per task the number of samples the firmware had produced when
    \* the task armed the oscilloscope (-1: not armed), and what the task's
    \* first drain appended
    armed_at, first_drain,
    \* the four mutexes and the threads that lock them: per thread its place
    \* in its code (0: not running) and whether it is parked in lock(); per
    \* mutex the thread holding it; a probe transfer is in flight
    at, waiting, holder, in_flight,

    \* ---- the transport under one STLink (stlink.rs:125-167) ----
    \* who holds the mutex around the STLink; per caller its position in
    \* transfer() and the command, payload and response buffer it was called
    \* with; the transport operations made so far, in order; the number of
    \* transfers begun
    x_owner, x_pc, x_call, usb, x_count

qvars == <<cb_front, cb_back, cb_capacity, cb_data, sc_pc, command_buffer_info,
           sc_cmd, sc_result, sent, delivered, clobbered, attempts>>

rvars == <<osc_index, osc_len, ring, last_index, d_pc, index, start_off,
           end_off, data, produced, since_poll, fetched, overrun, tick_last,
           prev_wrapped, raced>>

wvars == <<sample_buffer, sb_locked, appended>>

cvars == <<mem, m_pc, m_op, m_addr, m_esize, m_len, m_offset, m_buffer,
           m_result, m_base, m_size, mem0, wire, faulted>>

svars == <<running, connected, handle, command_list, cur, link, drop_panic,
          pc, cmds, record_samples, osc, task_last_index, osc_recording,
          cfg_mem, servo_config, servo_state, link_ok, base_known, stop_seen,
          pushes, sessions, died_at, applied, stop_raised, last_cfg, writes,
          armed_at, first_drain>>

lvars == <<at, waiting, holder, in_flight>>

xvars == <<x_owner, x_pc, x_call, usb, x_count>>

vars == <<qvars, rvars, wvars, cvars, svars, lvars, xvars>>

\* A part a specification does not exercise stays in this fixed state.
QueueParked ==
    /\ cb_capacity = 2 /\ cb_front = 0 /\ cb_back = 0
    /\ cb_data = [i \in 0..1 |-> 0]
    /\ sc_pc = "idle"
    /\ command_buffer_info = [front |-> 0, back |-> 0, capacity |-> 2]
    /\ sc_cmd = 0 /\ sc_result = "none"
    /\ sent = <<>> /\ delivered = <<>> /\ clobbered = FALSE /\ attempts = 0

RingParked ==
    /\ osc_len = 3 /\ osc_index = 0 /\ ring = [i \in 0..2 |-> 0]
    /\ last_index = 0 /\ d_pc = "header" /\ index = 0
    /\ start_off = 0 /\ end_off = 0 /\ data = <<>>
    /\ produced = 0 /\ since_poll = 0 /\ fetched = 0 /\ overrun = FALSE
    /\ tick_last = 0 /\ prev_wrapped = FALSE /\ raced = FALSE

WindowEmpty ==
    /\ sample_buffer = <<>> /\ sb_locked = FALSE /\ appended = 0

MarshalParked ==
    /\ mem = <<>> /\ mem0 = <<>>
    /\ m_pc = "idle" /\ m_op = "none" /\ m_addr = 0 /\ m_esize = 4
    /\ m_len = 0 /\ m_offset = 0 /\ m_buffer = <<>> /\ m_result = <<>>
    /\ m_base = 0 /\ m_size = 0 /\ wire = <<>> /\ faulted = FALSE

\* controller_interface.rs:43-59 and 61-81: ServoConfig has 14 f32 fields,
\* all 0.0 by default.
ServoConfigFields == 14
DefaultConfig == [k \in 1..ServoConfigFields |-> 0]

\* ServoConfig in target memory as the probe addresses it, from
\* servo_config_addr on: byte offset of each field to the word stored there.
ServoConfigBytes == 4 * ServoConfigFields
ConfigOffsets == {4 * k : k \in 0..(ServoConfigFields - 1)}
DefaultConfigMem == [x \in ConfigOffsets |-> 0]

\* The threads running controller_connection_task that are followed at one
\* time; a thread that has ended leaves its place to the next one spawned.
Tasks == {1, 2}

\* The threads: the one that draws the frames, a connection task, and the
\* sine input task; the mutexes they share (gui_logic.rs:21-27): the STLink
\* of the device, the mirrors, the sample window and the intent queue.
Threads == {"gui", "poller", "sine"}
Mutexes == {"dev", "controller_data", "sample_buffer", "controller_commands"}

\* No thread but the drawing one exists, every mutex is free.
\* The threads that call into the STLink.
Callers == {1, 2}

NoCall == [name |-> "none", cmd |-> <<>>, data |-> <<>>, has_data |-> FALSE,
           rx |-> FALSE]

TransferParked ==
    /\ x_owner = 0
    /\ x_pc = [c \in Callers |-> "idle"]
    /\ x_call = [c \in Callers |-> NoCall]
    /\ usb = <<>>
    /\ x_count = 0

LocksParked ==
    /\ at = [th \in Threads |-> 0]
    /\ waiting = [th \in Threads |-> FALSE]
    /\ holder = [m \in Mutexes |-> "none"]
    /\ in_flight = FALSE

\* The STLink objects: STLink::enumerate() makes a new one for the probe each
\* time the device list is refreshed (gui_logic.rs:82-84).
Links == 0..MaxInputs

\* No intent.
NoIntent == [kind |-> "none", a |-> 0, b |-> 0]

\* No drain yet.
NoDrain == [done |-> FALSE, got |-> <<>>]

SessionParked ==
    /\ running = FALSE
    /\ connected = [o \in Links |-> FALSE]
    /\ handle = [o \in Links |-> FALSE]
    /\ cur = 0 /\ link = [t \in Tasks |-> 0] /\ drop_panic = "none"
    /\ command_list = <<>>
    /\ pc = [t \in Tasks |-> "unborn"]
    /\ cmds = [t \in Tasks |-> <<>>]
    /\ record_samples = [t \in Tasks |-> FALSE]
    /\ osc = [t \in Tasks |-> [recording |-> FALSE, index |-> 0, len |-> 3]]
    /\ task_last_index = [t \in Tasks |-> 0]
    /\ osc_recording = FALSE
    /\ cfg_mem = DefaultConfigMem /\ servo_config = DefaultConfig
    /\ servo_state = 0
    /\ link_ok = TRUE
    /\ base_known = [t \in Tasks |-> FALSE]
    /\ stop_seen = [t \in Tasks |-> FALSE]
    /\ pushes = 0 /\ sessions = 0
    /\ died_at = [t \in Tasks |-> "none"] /\ applied = <<>>
    /\ stop_raised = [t \in Tasks |-> FALSE]
    /\ last_cfg = [t \in Tasks |-> NoIntent]
    /\ writes = {}
    /\ armed_at = [t \in Tasks |-> -1]
    /\ first_drain = [t \in Tasks |-> NoDrain]
    /\ LocksParked
    /\ TransferParked

\* ------------------------------------------------- outbound command queue

\* controller_commands.rs:47, the condition of the if
QueueHasRoomNoModulo(info) == (info.back + 1) # info.front
QueueAlwaysHasRoom(info) == TRUE
QueueHasRoom(info) == (info.back + 1) % info.capacity # info.front

\* controller_commands.rs:49, the value written to the header's back field
NextBack(info) == (info.back + 1) % info.capacity

\* controller_commands.rs:48, the element index of the slot written
SlotIndexAfterBack(info) == (info.back + 1) % info.capacity
SlotIndex(info) == info.back

\* controller_commands.rs:48-49, the two writes in program order
SendCommandOrderBackFirst == <<"back", "slot">>
SendCommandOrder == <<"slot", "back">>

\* The slots firmware still has to consume, as the header in target memory
\* describes them: front, front+1, ... up to but excluding back.
PendingCount == (cb_back - cb_front) % cb_capacity
PendingSlots == {(cb_front + k) % cb_capacity : k \in 0..(PendingCount - 1)}

\* send_command, line 45 and the test of line 47: read the header, decide.
SC_ReadHeader(cmd) ==
    /\ sc_pc = "idle"
    /\ attempts < MaxAttempts
    /\ attempts' = attempts + 1
    /\ sc_cmd' = cmd
    /\ command_buffer_info' =
           [front |-> cb_front, back |-> cb_back, capacity |-> cb_capacity]
    /\ IF QueueHasRoom(command_buffer_info')
          THEN sc_pc' = "write1" /\ sc_result' = "pending"
          ELSE sc_pc' = "idle" /\ sc_result' = "full"
    /\ UNCHANGED <<cb_front, cb_back, cb_capacity, cb_data, sent, delivered,
                   clobbered>>
    /\ UNCHANGED <<rvars, wvars, cvars, svars>>
    /\ UNCHANGED <<lvars, xvars>>

\* One of the two write_struct_array_offset calls of lines 48 and 49.
SC_DoWrite(kind) ==
    IF kind = "slot"
       THEN /\ cb_data' = [cb_data EXCEPT
                              ![SlotIndex(command_buffer_info)] = sc_cmd]
            /\ clobbered' = (clobbered \/
                              SlotIndex(command_buffer_info) \in PendingSlots)
            /\ UNCHANGED <<cb_back, sent>>
       ELSE /\ cb_back' = NextBack(command_buffer_info)
            /\ sent' = Append(sent, sc_cmd)
            /\ UNCHANGED <<cb_data, clobbered>>

SC_FirstWrite ==
    /\ sc_pc = "write1"
    /\ SC_DoWrite(SendCommandOrder[1])
    /\ sc_pc' = "write2"
    /\ UNCHANGED <<cb_front, cb_capacity, command_buffer_info, sc_cmd,
                   sc_result, delivered, attempts>>
    /\ UNCHANGED <<rvars, wvars, cvars, svars>>
    /\ UNCHANGED <<lvars, xvars>>

SC_SecondWrite ==
    /\ sc_pc = "write2"
    /\ SC_DoWrite(SendCommandOrder[2])
    /\ sc_pc' = "idle"
    /\ sc_result' = "ok"
    /\ UNCHANGED <<cb_front, cb_capacity, command_buffer_info, sc_cmd,
                   delivered, attempts>>
    /\ UNCHANGED <<rvars, wvars, cvars, svars>>
    /\ UNCHANGED <<lvars, xvars>>

\* Firmware, the consumer: takes the command at front when the queue is not
\* empty and advances front by one modulo capacity.
FW_Dequeue ==
    /\ cb_front # cb_back
    /\ delivered' = Append(delivered, cb_data[cb_front])
    /\ cb_front' = (cb_front + 1) % cb_capacity
    /\ UNCHANGED <<cb_back, cb_capacity, cb_data, sc_pc, command_buffer_info,
                   sc_cmd, sc_result, sent, clobbered, attempts>>
    /\ UNCHANGED <<rvars, wvars, cvars, svars>>
    /\ UNCHANGED <<lvars, xvars>>

QueueInit ==
    /\ SessionParked
    /\ RingParked
    /\ WindowEmpty
    /\ MarshalParked
    /\ cb_capacity \in 2..MaxCap
    /\ cb_front \in 0..(cb_capacity - 1)
    /\ cb_back = cb_front
    /\ cb_data = [i \in 0..(cb_capacity - 1) |-> 0]
    /\ sc_pc = "idle"
    /\ command_buffer_info = [front |-> cb_front, back |-> cb_back,
                              capacity |-> cb_capacity]
    /\ sc_cmd = 0
    /\ sc_result = "none"
    /\ sent = <<>>
    /\ delivered = <<>>
    /\ clobbered = FALSE
    /\ attempts = 0

QueueNext ==
    \/ \E cmd \in Commands : SC_ReadHeader(cmd)
    \/ SC_FirstWrite
    \/ SC_SecondWrite
    \/ FW_Dequeue

SpecQueue == QueueInit /\ [][QueueNext]_vars

\* ----------------------------------------------------- claims on the queue

\* C1: a call of send_command reports "full" exactly when (back + 1) mod
\* capacity = front in the header it read, otherwise it succeeds and the
\* back field in target memory is (back + 1) mod capacity; as long as no
\* consumer has run on a queue that started empty, exactly capacity - 1
\* calls succeed and every further one fails.
C1_EnqueueFullExactly ==
    (sc_pc = "idle" /\ sc_result # "none") =>
        LET info == command_buffer_info IN
        /\ (sc_result = "full") <=>
               ((info.back + 1) % info.capacity = info.front)
        /\ (sc_result = "ok") => cb_back = (info.back + 1) % info.capacity
        /\ (delivered = <<>>) =>
               /\ (sc_result = "full") => Len(sent) = cb_capacity - 1
               /\ (sc_result = "ok") => Len(sent) <= cb_capacity - 1
               /\ Len(sent) = Min(attempts, cb_capacity - 1)

\* The (capacity - 1)-th call succeeded and the next one was refused, with
\* no consumer involved.
C1_Witness ==
    /\ sc_pc = "idle"
    /\ sc_result = "full"
    /\ delivered = <<>>
    /\ cb_capacity = MaxCap
    /\ attempts = cb_capacity

\* C3: under every interleaving of the host's enqueue steps with firmware
\* dequeues, (back - front) mod capacity is the number of commands published
\* and not yet consumed, and that number is at most capacity - 1.
C3_OccupancyMatchesIndices ==
    /\ (cb_back - cb_front) % cb_capacity = Len(sent) - Len(delivered)
    /\ Len(sent) - Len(delivered) <= cb_capacity - 1

\* Enqueues and dequeues have interleaved and the indices have wrapped.
C3_Witness ==
    /\ Len(delivered) >= 2
    /\ Len(sent) - Len(delivered) = cb_capacity - 1
    /\ cb_back < cb_front

\* C6: the command is in its slot before the back index that exposes it is
\* published: every slot in [front, back) of target memory holds the command
\* that was enqueued there.
C6_PublishedSlotsHoldCommands ==
    \A k \in 1..PendingCount :
        /\ Len(delivered) + k <= Len(sent)
        /\ cb_data[(cb_front + k - 1) % cb_capacity] = sent[Len(delivered) + k]

\* The host is between its two writes with commands of both tags pending.
C6_Witness ==
    /\ sc_pc = "write2"
    /\ PendingCount >= 2
    /\ \E i, j \in PendingSlots : cb_data[i] # cb_data[j]

\* C7: single producer, single consumer: the host never writes a slot that
\* firmware has not consumed yet, and firmware receives exactly the commands
\* that were published, each once and in order.
C7_NoOverwriteNoLossNoDuplicate ==
    /\ ~clobbered
    /\ Len(delivered) <= Len(sent)
    /\ delivered = SubSeq(sent, 1, Len(delivered))

\* Firmware consumed while the host was in the middle of a send_command, and
\* the host has reused slots.
C7_Witness ==
    /\ sc_pc = "write2"
    /\ Len(delivered) > cb_capacity
    /\ command_buffer_info.front # cb_front

\* ------------------------------------------------- inbound sample stream

\* controller_interface.rs:294-302: the region of one drain and the new
\* last_index, from the header's index and len and the tracked last_index.
DrainRegionNoReset(idx, last, len) ==
    IF idx < last
       THEN [start_off |-> last, end_off |-> len, last_index |-> idx]
       ELSE [start_off |-> last, end_off |-> idx, last_index |-> idx]
DrainRegion(idx, last, len) ==
    IF idx < last
       THEN [start_off |-> last, end_off |-> len, last_index |-> 0]
       ELSE [start_off |-> last, end_off |-> idx, last_index |-> idx]

\* controller_interface.rs:304 with stlink.rs:441-471: `count` elements of the
\* sample array starting `offset` elements past its base.
ReadSamplesOffByOne(count, offset) ==
    [i \in 1..count |-> ring[(offset + i) % osc_len]]
ReadSamples(count, offset) == [i \in 1..count |-> ring[offset + i - 1]]

\* controller_interface.rs:250
max_sample_storage == 10000

\* controller_interface.rs:309-312: the window after the trim.
TrimmedFromBack(buf) ==
    IF Len(buf) > max_sample_storage
       THEN SubSeq(buf, 1, max_sample_storage)
       ELSE buf
TrimmedOffByOne(buf) ==
    IF Len(buf) > max_sample_storage + 1
       THEN SubSeq(buf, Len(buf) - max_sample_storage + 1, Len(buf))
       ELSE buf
Trimmed(buf) ==
    IF Len(buf) > max_sample_storage
       THEN LET to_remove == Len(buf) - max_sample_storage
            IN  SubSeq(buf, to_remove + 1, Len(buf))
       ELSE buf

\* Firmware, the producer: stores the next sample at index and advances index
\* by one modulo len. Fewer than len samples are produced between two header
\* reads of the host.
FW_Sample ==
    /\ produced < MaxProduced
    /\ since_poll + 1 < osc_len
    /\ ring' = [ring EXCEPT ![osc_index] = produced + 1]
    /\ osc_index' = (osc_index + 1) % osc_len
    /\ produced' = produced + 1
    /\ since_poll' = since_poll + 1
    /\ overrun' = (overrun \/ (produced + 1) - fetched >= osc_len)
    /\ raced' = (raced \/ d_pc = "array")
    /\ UNCHANGED <<osc_len, last_index, d_pc, index, start_off, end_off, data,
                   fetched, tick_last, prev_wrapped, wvars>>
    /\ UNCHANGED <<qvars, cvars, svars>>
    /\ UNCHANGED <<lvars, xvars>>

\* Lines 291-302: read the header, fix the region, move last_index.
D_ReadHeader ==
    /\ d_pc = "header"
    /\ LET r == DrainRegion(osc_index, last_index, osc_len) IN
       /\ index' = osc_index
       /\ start_off' = r.start_off
       /\ end_off' = r.end_off
       /\ last_index' = r.last_index
    /\ tick_last' = last_index
    /\ prev_wrapped' = (index < tick_last)
    /\ since_poll' = 0
    /\ d_pc' = "array"
    /\ UNCHANGED <<osc_index, osc_len, ring, data, produced, fetched, overrun,
                   raced, wvars>>
    /\ UNCHANGED <<qvars, cvars, svars>>
    /\ UNCHANGED <<lvars, xvars>>

\* Line 304: read the region's samples from the array.
D_ReadArray ==
    /\ d_pc = "array"
    /\ data' = ReadSamples(end_off - start_off, start_off)
    /\ fetched' = fetched + (end_off - start_off)
    /\ d_pc' = "append"
    /\ UNCHANGED <<osc_index, osc_len, ring, last_index, index, start_off,
                   end_off, produced, since_poll, overrun, tick_last,
                   prev_wrapped, raced, wvars>>
    /\ UNCHANGED <<qvars, cvars, svars>>
    /\ UNCHANGED <<lvars, xvars>>

\* Lines 306-307: take the window's lock and append the drained samples.
D_Append ==
    /\ d_pc = "append"
    /\ ~sb_locked
    /\ sb_locked' = TRUE
    /\ sample_buffer' = sample_buffer \o data
    /\ appended' = appended + Len(data)
    /\ data' = <<>>
    /\ d_pc' = "trim"
    /\ UNCHANGED <<osc_index, osc_len, ring, last_index, index, start_off,
                   end_off, produced, since_poll, fetched, overrun, tick_last,
                   prev_wrapped, raced>>
    /\ UNCHANGED <<qvars, cvars, svars>>
    /\ UNCHANGED <<lvars, xvars>>

\* Lines 309-313: trim the window to max_sample_storage, release the lock.
D_Trim ==
    /\ d_pc = "trim"
    /\ sample_buffer' = Trimmed(sample_buffer)
    /\ sb_locked' = FALSE
    /\ d_pc' = "header"
    /\ UNCHANGED <<osc_index, osc_len, ring, last_index, index, start_off,
                   end_off, data, produced, since_poll, fetched, overrun,
                   tick_last, prev_wrapped, raced, appended>>
    /\ UNCHANGED <<qvars, cvars, svars>>
    /\ UNCHANGED <<lvars, xvars>>

RingInit ==
    /\ SessionParked
    /\ QueueParked
    /\ WindowEmpty
    /\ MarshalParked
    /\ osc_len \in 2..MaxRing
    /\ osc_index \in 0..(osc_len - 1)
    /\ ring = [i \in 0..(osc_len - 1) |-> 0]
    /\ last_index = osc_index
    /\ d_pc = "header"
    /\ index = osc_index
    /\ start_off = osc_index /\ end_off = osc_index
    /\ data = <<>>
    /\ produced = 0 /\ since_poll = 0 /\ fetched = 0 /\ overrun = FALSE
    /\ tick_last = osc_index /\ prev_wrapped = FALSE /\ raced = FALSE

RingNext ==
    \/ FW_Sample
    \/ D_ReadHeader
    \/ D_ReadArray
    \/ D_Append
    \/ D_Trim

SpecRing == RingInit /\ [][RingNext]_vars

\* --------------------------------------------- claims on the sample stream

\* The window holds the samples 1..n in production order, each once.
WindowIsProductionPrefix ==
    sample_buffer = [i \in 1..Len(sample_buffer) |-> i]

\* C2 as stated: with fewer than len samples produced between two consecutive
\* header reads (FW_Sample's guard), the window holds every drained sample
\* exactly once and in production order. The statement is given the benefit
\* of reading a poll as one instant: runs in which firmware produced between
\* a tick's header read and its array read are left out.
C2_ExactlyOnceInOrder_AsStated ==
    (d_pc = "header" /\ ~raced) => WindowIsProductionPrefix

\* C2, amended: as long as the number of samples produced and not yet read
\* by the host has stayed below len, every tick leaves the window holding
\* exactly the samples 1..fetched, in production order, each once, and the
\* samples still to come are those firmware produced after them.
C2_ExactlyOnceInOrder ==
    (d_pc = "header" /\ ~overrun) =>
        /\ WindowIsProductionPrefix
        /\ Len(sample_buffer) = fetched
        /\ (osc_index - last_index) % osc_len = produced - fetched

\* A wrapped drain and the tick after it have both been appended, in order.
C2_Witness ==
    /\ d_pc = "header"
    /\ ~overrun
    /\ prev_wrapped
    /\ osc_len = MaxRing
    /\ Len(sample_buffer) >= osc_len + 1
    /\ Len(sample_buffer) = produced

\* C8: once a tick has read the header, index >= last_index gives the region
\* [last_index, index) and last_index = index; index < last_index gives the
\* region [last_index, len) and last_index = 0, so that the tick after a
\* wrapped one starts its region at 0; the samples then read are those of
\* the region.
C8_DrainRegion ==
    /\ (d_pc = "array") =>
        /\ start_off = tick_last
        /\ (index >= tick_last) => (end_off = index /\ last_index = index)
        /\ (index < tick_last) => (end_off = osc_len /\ last_index = 0)
        /\ prev_wrapped => start_off = 0
    /\ (d_pc = "append") => Len(data) = end_off - start_off

\* The header's index is below last_index: the writer wrapped.
C8_Witness ==
    /\ d_pc = "array"
    /\ index < tick_last
    /\ index > 0
    /\ start_off = osc_len - 1

\* ------------------------------------------------------- the sample window

\* One drain that delivered n samples (any header and ring content produces
\* some n): the data of lines 291-304, numbered in the order of appending.
DrainSizes == {1, 2, 2500}

W_Drained(n) ==
    /\ d_pc = "header"
    /\ appended + n <= MaxAppended
    /\ data' = [i \in 1..n |-> appended + i]
    /\ d_pc' = "append"
    /\ UNCHANGED <<osc_index, osc_len, ring, last_index, index, start_off,
                   end_off, produced, since_poll, fetched, overrun, tick_last,
                   prev_wrapped, raced, wvars>>
    /\ UNCHANGED <<qvars, cvars, svars>>
    /\ UNCHANGED <<lvars, xvars>>

WindowInit ==
    SessionParked /\ QueueParked /\ RingParked /\ WindowEmpty /\ MarshalParked

WindowNext ==
    \/ \E n \in DrainSizes : W_Drained(n)
    \/ D_Append
    \/ D_Trim

SpecWindow == WindowInit /\ [][WindowNext]_vars

\* ------------------------------------------------------ claims on the window

\* C9: whenever the window's lock is free the window holds the most recent
\* min(appended, 10000) samples and no others, oldest first.
C9_WindowIsMostRecent ==
    (~sb_locked) =>
        LET n == Min(appended, 10000) IN
        /\ Len(sample_buffer) = n
        /\ Len(sample_buffer) <= 10000
        /\ \A i \in 1..n : sample_buffer[i] = appended - n + i

\* More than 10000 samples have been appended, the last drain a single
\* sample, and the trim has run.
C9_Witness ==
    /\ ~sb_locked
    /\ appended > 10001
    /\ Len(sample_buffer) = 10000
    /\ sample_buffer[1] = appended - 9999
    /\ d_pc = "header"

\* ------------------------------------------ chunked typed memory access

\* stlink.rs:275
STLINK_MAXIMUM_TRANSFER_SIZE == 1024

ReadOps == {"read_struct", "read_struct_array", "read_struct_array_with_offset"}
LoopWriteOps == {"write_struct_array", "write_struct_array_offset"}

\* What the calls are made with: remote addresses, size_of::<T>() of the
\* values read and written whole (u32, Oscilloscope, ServoConfig, and sizes
\* at and above the transfer limit such as ServoConfig with its 512-entry
\* table), element size and count of the arrays, element offsets; with
\* them an address and sizes that are no multiples of 4 (a T of 6 or 1030
\* bytes, items of 2 bytes).
Addrs == {0, 2, 8}
StructSizes == {4, 6, 16, 56, 1024, 1030, 2048, 2104}
ArrayShapes == {<<2, 3>>, <<2, 515>>, <<4, 1>>, <<4, 256>>, <<4, 300>>,
                <<32, 0>>, <<32, 2>>, <<32, 32>>, <<32, 33>>, <<32, 64>>}
ElemOffsets == {0, 2}

MemAddrs == {a \in 0..(MemBytes - 1) : a % 4 = 0}

\* The words of target memory `m` in [a, a + n).
WordsAt(m, a, n) == [i \in 1..(n \div 4) |-> m[a + 4 * (i - 1)]]

\* Target memory `m` with the words `ws` stored from address a on.
WithWords(m, a, ws) ==
    [x \in DOMAIN m |->
        IF x >= a /\ x < a + 4 * Len(ws) THEN ws[(x - a) \div 4 + 1] ELSE m[x]]

\* The bytes of the value or items a write is called with.
WriteData(n) == [i \in 1..(n \div 4) |-> 5000 + i]

\* The assertions of get_mem32 and set_mem32 without the one on the size.
MemAssertsUnbounded(addr, size) ==
    /\ addr % 4 = 0
    /\ size % 4 = 0

\* stlink.rs:316-318 and 337-339: the assertions of get_mem32 and set_mem32
MemAsserts(addr, size) ==
    /\ addr % 4 = 0
    /\ size % 4 = 0
    /\ size <= STLINK_MAXIMUM_TRANSFER_SIZE

\* stlink.rs:387, 417, 449, 489, 509: let n = len.min(MAXIMUM_TRANSFER_SIZE)
ChunkSize(len) == Min(len, STLINK_MAXIMUM_TRANSFER_SIZE)

\* stlink.rs:392, 422, 454, 492, 512: if len < MAXIMUM_TRANSFER_SIZE { break }
LoopExits(len) == len < STLINK_MAXIMUM_TRANSFER_SIZE

\* The call: stlink.rs:382-384, 412-414, 444-446, 475-476, 483-486, 503-506.
M_Start(op, addr, esize, count, off) ==
    /\ m_pc = "idle"
    /\ m_op = "none"
    /\ m_op' = op
    /\ m_esize' = esize
    /\ m_len' = esize * count
    /\ m_addr' = IF op = "write_struct_array_offset"
                    THEN addr + off * esize ELSE addr
    /\ m_offset' = IF op = "read_struct_array_with_offset"
                      THEN esize * off ELSE 0
    /\ m_buffer' = IF op \in ReadOps THEN <<>> ELSE WriteData(esize * count)
    /\ m_pc' = IF op = "write_struct" THEN "single" ELSE "loop"
    /\ m_base' = addr + esize * off
    /\ m_size' = esize * count
    /\ mem0' = mem
    /\ UNCHANGED <<mem, m_result, wire, faulted>>
    /\ UNCHANGED <<qvars, rvars, wvars, svars>>
    /\ UNCHANGED <<lvars, xvars>>

\* One pass of a read loop, stlink.rs:386-398, 416-428, 448-460, with
\* get_mem32 (314-331) and the transfer under it. The probe answers with the
\* bytes asked for ("ok"), with fewer ("short": read() hands on whatever
\* count read_bulk reports and get_mem32 truncates to it), or the transfer
\* fails and an unwrap panics ("fail"). What a probe sends back for a read of
\* zero bytes is not known: nothing, and read_bulk reports 0 bytes ("ok"), or
\* nothing, and read_bulk times out ("fail").
M_ReadChunk(outcome) ==
    /\ m_pc = "loop"
    /\ m_op \in ReadOps
    /\ LET n == ChunkSize(m_len)
           a == m_addr + m_offset
           got == IF outcome = "short" THEN n - 4 ELSE n
       IN  IF ~MemAsserts(a, n)
              THEN /\ outcome = "ok"
                   /\ m_pc' = "panicked"
                   /\ UNCHANGED <<m_len, m_offset, m_buffer, wire, faulted>>
              ELSE /\ outcome = "short" => n > 0
                   /\ wire' = Append(wire, [kind |-> "read", addr |-> a,
                                            size |-> n])
                   /\ faulted' = (faulted \/ outcome # "ok")
                   /\ IF outcome = "fail"
                         THEN /\ m_pc' = "panicked"
                              /\ UNCHANGED <<m_len, m_offset, m_buffer>>
                         ELSE /\ m_buffer' = m_buffer \o WordsAt(mem, a, got)
                              /\ IF LoopExits(m_len)
                                    THEN /\ m_pc' = "convert"
                                         /\ UNCHANGED <<m_len, m_offset>>
                                    ELSE /\ m_pc' = "loop"
                                         /\ m_len' = m_len
                                              - STLINK_MAXIMUM_TRANSFER_SIZE
                                         /\ m_offset' = m_offset
                                              + STLINK_MAXIMUM_TRANSFER_SIZE
    /\ UNCHANGED <<mem, m_op, m_addr, m_esize, m_result, m_base, m_size, mem0>>
    /\ UNCHANGED <<qvars, rvars, wvars, svars>>
    /\ UNCHANGED <<lvars, xvars>>

\* The end of a read, stlink.rs:400-406, 431-438, 463-470: the buffer seen as
\* items of T. read_struct returns item[0], which panics when the buffer holds
\* no whole item; the array reads assert that no bytes are left over and
\* return every item.
M_Convert ==
    /\ m_pc = "convert"
    /\ IF m_op = "read_struct"
          THEN IF 4 * Len(m_buffer) >= m_esize
                  THEN /\ m_result' = SubSeq(m_buffer, 1, m_esize \div 4)
                       /\ m_pc' = "done"
                  ELSE /\ m_pc' = "panicked"
                       /\ UNCHANGED m_result
          ELSE IF (4 * Len(m_buffer)) % m_esize = 0
                  THEN /\ m_result' = m_buffer
                       /\ m_pc' = "done"
                  ELSE /\ m_pc' = "panicked"
                       /\ UNCHANGED m_result
    /\ UNCHANGED <<mem, m_op, m_addr, m_esize, m_len, m_offset, m_buffer,
                   m_base, m_size, mem0, wire, faulted>>
    /\ UNCHANGED <<qvars, rvars, wvars, svars>>
    /\ UNCHANGED <<lvars, xvars>>

\* set_mem32, stlink.rs:333-346, on the words `ws` for address a: the
\* assertions, then the command frame and the payload; a failed or short
\* write panics in write() and the probe stores nothing.
SetMem32(a, n, ws, outcome, more) ==
    IF ~MemAsserts(a, n)
       THEN /\ outcome = "ok"
            /\ m_pc' = "panicked"
            /\ UNCHANGED <<mem, wire, faulted>>
       ELSE /\ wire' = Append(wire, [kind |-> "write", addr |-> a,
                                     size |-> n])
            /\ faulted' = (faulted \/ outcome # "ok")
            /\ IF outcome = "fail"
                  THEN m_pc' = "panicked" /\ UNCHANGED mem
                  ELSE /\ mem' = WithWords(mem, a, ws)
                       /\ m_pc' = IF more THEN "loop" ELSE "done"

\* One pass of a write loop, stlink.rs:488-498 and 508-518.
M_WriteChunk(outcome) ==
    /\ m_pc = "loop"
    /\ m_op \in LoopWriteOps
    /\ outcome \in {"ok", "fail"}
    /\ LET n == ChunkSize(m_len)
           piece == SubSeq(m_buffer, m_offset \div 4 + 1, (m_offset + n) \div 4)
       IN  /\ SetMem32(m_addr + m_offset, n, piece, outcome,
                    ~LoopExits(m_len))
           /\ IF m_pc' = "loop"
                 THEN /\ m_len' = m_len - STLINK_MAXIMUM_TRANSFER_SIZE
                      /\ m_offset' = m_offset + STLINK_MAXIMUM_TRANSFER_SIZE
                 ELSE UNCHANGED <<m_len, m_offset>>
    /\ UNCHANGED <<m_op, m_addr, m_esize, m_buffer, m_result, m_base, m_size,
                   mem0>>
    /\ UNCHANGED <<qvars, rvars, wvars, svars>>
    /\ UNCHANGED <<lvars, xvars>>

\* write_struct, stlink.rs:473-479: the whole value in one set_mem32.
M_WriteStruct(outcome) ==
    /\ m_pc = "single"
    /\ outcome \in {"ok", "fail"}
    /\ SetMem32(m_addr, m_len, m_buffer, outcome, FALSE)
    /\ UNCHANGED <<m_op, m_addr, m_esize, m_len, m_offset, m_buffer, m_result,
                   m_base, m_size, mem0>>
    /\ UNCHANGED <<qvars, rvars, wvars, svars>>
    /\ UNCHANGED <<lvars, xvars>>

Outcomes == {"ok", "short", "fail"}

MarshalInit ==
    /\ SessionParked
    /\ QueueParked
    /\ RingParked
    /\ WindowEmpty
    /\ mem = [a \in MemAddrs |-> a \div 4 + 1]
    /\ mem0 = mem
    /\ m_pc = "idle" /\ m_op = "none" /\ m_addr = 0 /\ m_esize = 4
    /\ m_len = 0 /\ m_offset = 0 /\ m_buffer = <<>> /\ m_result = <<>>
    /\ m_base = 0 /\ m_size = 0 /\ wire = <<>> /\ faulted = FALSE

MarshalNext ==
    \/ \E a \in Addrs, sz \in StructSizes :
           M_Start("read_struct", a, sz, 1, 0)
    \/ \E a \in Addrs, sz \in StructSizes :
           M_Start("write_struct", a, sz, 1, 0)
    \/ \E a \in Addrs, sh \in ArrayShapes :
           M_Start("read_struct_array", a, sh[1], sh[2], 0)
    \/ \E a \in Addrs, sh \in ArrayShapes :
           M_Start("write_struct_array", a, sh[1], sh[2], 0)
    \/ \E a \in Addrs, sh \in ArrayShapes, off \in ElemOffsets :
           M_Start("read_struct_array_with_offset", a, sh[1], sh[2], off)
    \/ \E a \in Addrs, sh \in ArrayShapes, off \in ElemOffsets :
           M_Start("write_struct_array_offset", a, sh[1], sh[2], off)
    \/ \E o \in Outcomes : M_ReadChunk(o)
    \/ M_Convert
    \/ \E o \in Outcomes : M_WriteChunk(o)
    \/ \E o \in Outcomes : M_WriteStruct(o)

SpecMarshal == MarshalInit /\ [][MarshalNext]_vars

\* ------------------------------------------------ claims on the marshaller

\* What one unchunked transfer of the same range gives: the bytes a read
\* returns, and target memory after a write.
IdealRead == WordsAt(mem0, m_base, m_size)
IdealWrite == WithWords(mem0, m_base, WriteData(m_size))

Finished == m_pc \in {"done", "panicked"}

\* The call is for a range whose address and size are multiples of 4.
Aligned == m_base % 4 = 0 /\ m_size % 4 = 0

\* C4 as stated: with no transfer failing, every typed read returns the
\* bytes of the range and every typed write leaves target memory as one
\* unchunked transfer would, for every size that is a multiple of 4.
C4_ChunkingTransparent_AsStated ==
    (Finished /\ ~faulted /\ Aligned) =>
        /\ m_pc = "done"
        /\ (m_op \in ReadOps) => (m_result = IdealRead /\ mem = mem0)
        /\ (m_op \notin ReadOps) => mem = IdealWrite

\* C5 as stated: when a chunk transfer of a read or write of more than one
\* chunk failed or came back short, the whole call fails: no value is
\* returned, and a write leaves target memory as it was.
C5_NoPartialResult_AsStated ==
    (Finished /\ faulted /\ m_size > STLINK_MAXIMUM_TRANSFER_SIZE) =>
        /\ m_pc = "panicked"
        /\ mem = mem0

\* ------------------------------------------------------ the connection task

\* controller_interface.rs:206-217: the intents, with the payloads the
\* presentation layer gives them (gui_logic.rs:39-41, 231-258);
\* WriteServoConfig is part of the interface though no widget pushes it.
\* The offset of UpdateConfigParameter is one of the OFFSET_* constants
\* (lines 26-39): here OFFSET_VEL_MAX_ABS and the last of them,
\* OFFSET_VEL_PLLKI. A Command is named by its discriminant plus one.
Intents ==
    {[kind |-> "WriteServoConfig", a |-> 1, b |-> 0],
     [kind |-> "StartRecording", a |-> 0, b |-> 0],
     [kind |-> "StopRecording", a |-> 0, b |-> 0],
     [kind |-> "StopMotor", a |-> 0, b |-> 0],
     [kind |-> "StartMotor", a |-> 0, b |-> 0],
     [kind |-> "PositionCommand", a |-> 1, b |-> 0],
     [kind |-> "UpdateConfigParameter", a |-> 6, b |-> 2],
     [kind |-> "UpdateConfigParameter", a |-> 13, b |-> 3],
     [kind |-> "SendCommand", a |-> 7, b |-> 0],
     [kind |-> "ResetController", a |-> 0, b |-> 0]}

\* controller_interface.rs:270, 273, 276, 282: the Command an intent sends.
CommandOf(i) ==
    CASE i.kind = "StopMotor" -> 1
      [] i.kind = "StartMotor" -> 2
      [] i.kind = "PositionCommand" -> 8
      [] i.kind = "SendCommand" -> i.a
      [] OTHER -> 0

\* controller_interface.rs:168-175 and controller_commands.rs:6-29:
\* size_of::<Oscilloscope>() (a bool padded to 4 bytes and three u32) and
\* size_of::<Command>() (a C enum: the tag and the largest payload, 4 bytes
\* each).
OscilloscopeBytes == 16
CommandBytes == 8

\* stlink.rs:504: addr + offset * size_of::<T>(), as the distance from addr.
ItemOffsetScaled(offset, esize) == 16 * offset * esize
ItemOffsetNext(offset, esize) == (offset + 1) * esize
ItemOffset(offset, esize) == offset * esize

\* A memory write by the pointer it starts from.
WriteAt(ptr, off, size) == [ptr |-> ptr, off |-> off, size |-> size]

\* The ServoConfig an intent WriteServoConfig carries, named by a.
ConfigValue(a) == [k \in 1..ServoConfigFields |-> 10 * a + k]

\* Target memory with the words ws stored one word after address a.
WithWordsOneLate(m, a, ws) ==
    [x \in DOMAIN m |->
        IF x >= a + 4 /\ x < a + 4 + 4 * Len(ws)
           THEN ws[(x - a - 4) \div 4 + 1] ELSE m[x]]

\* write_struct (stlink.rs:473-479) and write_struct_array_offset (501-519)
\* on ServoConfig, for a value below the transfer limit: one set_mem32.
StoreWords(m, a, ws) == WithWords(m, a, ws)

\* The memory writes intent i makes (lines 260-285), the command queue's
\* header being info: the value or the parameter into ServoConfig, and for a
\* command that finds room its slot and the header's back field.
\* controller_interface.rs:261, 279: the pointer of ControllerPointers the
\* two configuration writes start from; the table's other servo pointer.
StatePointer == "servo_state_addr"
ConfigPointer == "servo_config_addr"

\* controller_commands.rs:36-41: CommandBufferInfo, four u32.
CommandBufferInfoBytes == 16

\* controller_commands.rs:48-49: the two writes of a send_command that found
\* room, the command into the slot at `back` of the array at data_addr and
\* one u32 at element 1 of the header; and a send_command that would write
\* its whole copy of the header back.
SendCommandWritesHeader(info) ==
    {WriteAt("data_addr", ItemOffset(SlotIndex(info), CommandBytes),
             CommandBytes),
     WriteAt("command_buffer_addr", 0, CommandBufferInfoBytes)}
SendCommandWrites(info) ==
    {WriteAt("data_addr", ItemOffset(SlotIndex(info), CommandBytes),
             CommandBytes),
     WriteAt("command_buffer_addr", ItemOffset(1, 4), 4)}

IntentWrites(i, info) ==
    CASE i.kind = "WriteServoConfig" ->
             {WriteAt(ConfigPointer, 0, ServoConfigBytes)}
      [] i.kind = "UpdateConfigParameter" ->
             {WriteAt(ConfigPointer, ItemOffset(i.a, 4), 4)}
      [] CommandOf(i) # 0 /\ QueueHasRoom(info) -> SendCommandWrites(info)
      [] OTHER -> {}

\* controller_interface.rs:240 and 291: read_struct::<Oscilloscope> gives the
\* header as target memory holds it now, whatever copy `old` the thread had;
\* before it, the copy kept.
KeepOscilloscope(old) == old
ReadOscilloscope(old) ==
    [recording |-> osc_recording, index |-> osc_index, len |-> osc_len]

\* controller_interface.rs:248: let mut last_index = osc.index, of the copy
\* that was written back; and a cursor that starts at the front of the array.
ArmedIndexZero(h) == 0
ArmedIndex(h) == h.index

\* controller_interface.rs:316: read_struct::<ServoConfig> gives the whole
\* struct as target memory `m` holds it, whatever the mirror `old` held;
\* before it, a mirror left as it was.
KeepServoConfig(m, old) == old
ReadServoConfig(m, old) == WordsAt(m, 0, ServoConfigBytes)

\* controller_commands.rs:45: read_struct::<CommandBufferInfo>
ReadCommandBufferInfo ==
    [front |-> cb_front, back |-> cb_back, capacity |-> cb_capacity]

\* controller_interface.rs:254: the condition of the while loop
LoopAlwaysExits(flag) == FALSE
LoopContinues(flag) == flag

\* The phases of the state machine, by a thread's position: a thread not yet
\* spawned or one that returned is no poller (Idle); a panicked thread ended
\* by an unwrap or an assertion.
Phase(p) ==
    CASE p \in {"unborn", "returned"} -> "Idle"
      [] p \in {"store_running", "clear", "connect", "enter_swd"} -> "Connecting"
      [] p \in {"read_config_addr", "read_base", "read_osc", "arm"} -> "Discovering"
      [] p \in {"loop_top", "take", "apply", "drain", "refresh_state",
                "refresh_config", "sleep"} -> "Running"
      [] p = "disconnect" -> "Disconnecting"
      [] OTHER -> "Dead"

shared == <<running, connected, handle, command_list, cur, link, drop_panic,
            osc_recording, cfg_mem, servo_config, servo_state, link_ok,
            pushes, sessions>>

locals == <<cmds, record_samples, osc, task_last_index, base_known, stop_seen,
           died_at, applied, stop_raised, last_cfg, writes, armed_at,
           first_drain>>

target == <<qvars, rvars, wvars, cvars>>

Goto(t, to) == pc' = [pc EXCEPT ![t] = to]

\* stlink.rs:128-149: a transfer needs the handle (write panics without it)
\* and a USB call that returns Ok (each is unwrapped).
TransferWorks(t) == handle[link[t]] /\ link_ok

\* What the environment has done so far: threads spawned, intents pushed,
\* samples produced.
Inputs == sessions + pushes + produced + cur

\* A place no live thread holds.
Free(t) == pc[t] \in {"unborn", "returned", "panicked", "killed"}

\* libusb gives an interface to one handle at a time.
InterfaceFree == \A o \in Links : ~handle[o]

\* The Arc of the STLink `t` was spawned with has no other holder: the device
\* list holds a later STLink and no other live thread was spawned with it.
LastHolder(t) ==
    /\ cur # link[t]
    /\ \A u \in Tasks \ {t} : Free(u) \/ link[u] # link[t]

\* stlink.rs:170-176 with 117-123: what dropping an STLink with these fields
\* does. Not connected: nothing. Connected: disconnect(), which unwraps the
\* handle and then the result of release_interface.
DropPanic(conn, hand) ==
    IF ~conn THEN "none"
    ELSE IF ~hand THEN "missing_handle"
    ELSE IF ~link_ok THEN "release_failed"
    ELSE "none"

\* The fields after the STLink `o` was dropped: the handle is gone either way
\* (the DeviceHandle is dropped with the STLink or with disconnect's local).
Dropped(f, o) == [f EXCEPT ![o] = FALSE]

\* A panic in a drop ends the process: in the GUI thread it unwinds main, in
\* a thread that is already unwinding it aborts. Every live thread is gone.
Killed == [u \in Tasks |-> IF Free(u) THEN pc[u] ELSE "killed"]

\* gui_logic.rs:87, 104-120: the Connect button spawns a thread when no
\* device reports itself connected. The new thread starts with its locals
\* not yet assigned.
GUI_Connect ==
    /\ drop_panic = "none"
    /\ ~connected[cur]
    /\ Inputs < MaxInputs
    /\ \E t \in Tasks :
          /\ Free(t)
          /\ \A u \in Tasks : Free(u) => t <= u
          /\ Goto(t, "store_running")
          /\ cmds' = [cmds EXCEPT ![t] = <<>>]
          /\ record_samples' = [record_samples EXCEPT ![t] = FALSE]
          /\ osc' = [osc EXCEPT ![t] = [recording |-> FALSE, index |-> 0,
                                        len |-> 3]]
          /\ task_last_index' = [task_last_index EXCEPT ![t] = 0]
          /\ base_known' = [base_known EXCEPT ![t] = FALSE]
          /\ stop_seen' = [stop_seen EXCEPT ![t] = FALSE]
          /\ died_at' = [died_at EXCEPT ![t] = "none"]
          /\ stop_raised' = [stop_raised EXCEPT ![t] = FALSE]
          /\ last_cfg' = [last_cfg EXCEPT ![t] = NoIntent]
          /\ link' = [link EXCEPT ![t] = cur]
          /\ armed_at' = [armed_at EXCEPT ![t] = -1]
          /\ first_drain' = [first_drain EXCEPT ![t] = NoDrain]
    /\ applied' = applied
    /\ writes' = writes
    /\ sessions' = sessions + 1
    /\ UNCHANGED <<running, connected, handle, command_list, osc_recording,
                   cfg_mem, servo_config, servo_state, link_ok, pushes, cur,
                   drop_panic>>
    /\ UNCHANGED target
    /\ UNCHANGED <<lvars, xvars>>

\* gui_logic.rs:97-101: the Disconnect button stores false in the alive flag.
GUI_Disconnect ==
    /\ drop_panic = "none"
    /\ connected[cur]
    /\ running' = FALSE
    /\ stop_raised' = [t \in Tasks |->
                          stop_raised[t] \/ Phase(pc[t]) = "Running"]
    /\ UNCHANGED <<connected, handle, command_list, osc_recording, cfg_mem,
                   servo_config, servo_state, link_ok, pushes, sessions, cur,
                   link, drop_panic>>
    /\ UNCHANGED <<pc, cmds, record_samples, osc, task_last_index, base_known,
                   stop_seen, died_at, applied, last_cfg, writes, armed_at,
                   first_drain>>
    /\ UNCHANGED target
    /\ UNCHANGED <<lvars, xvars>>

\* gui_logic.rs:33-35, 138: a parameter widget edits the field of the
\* ServoConfig mirror itself (input_float on &mut servo_config.field); the
\* other widgets leave the mirror alone.
WidgetEdit(mirror, i) ==
    IF i.kind = "UpdateConfigParameter"
       THEN [mirror EXCEPT ![i.a + 1] = i.b]
       ELSE mirror

\* gui_logic.rs:33-41, 227-258: a widget pushes an intent while the alive
\* flag is set; a parameter widget pushes the value it has just put into
\* the mirror. The intent is numbered, and `early` notes the sessions that
\* have set the alive flag and have their clear (line 228) still to come.
GUI_Push(i) ==
    /\ drop_panic = "none"
    /\ running
    /\ Inputs < MaxInputs
    /\ command_list' =
           Append(command_list,
                  [kind |-> i.kind, a |-> i.a, b |-> i.b, id |-> pushes + 1,
                   early |-> {t \in Tasks : pc[t] = "clear"}])
    /\ pushes' = pushes + 1
    /\ servo_config' = WidgetEdit(servo_config, i)
    /\ UNCHANGED <<running, connected, handle, osc_recording, cfg_mem,
                   servo_state, link_ok, sessions, cur, link, drop_panic>>
    /\ UNCHANGED <<pc, locals, target>>
    /\ UNCHANGED <<lvars, xvars>>

\* The probe is unplugged or stops answering: from now on every USB call
\* returns an error.
ENV_LinkFails ==
    /\ link_ok
    /\ link_ok' = FALSE
    /\ UNCHANGED <<running, connected, handle, command_list, osc_recording,
                   cfg_mem, servo_config, servo_state, pushes, sessions, cur,
                   link, drop_panic>>
    /\ UNCHANGED <<pc, locals, target>>
    /\ UNCHANGED <<lvars, xvars>>

\* An unwrap, assert or panic!() unwinds the thread; parking_lot locks are
\* released without poisoning and no shared value is touched.
\* Unwinding drops the thread's Arc of the STLink; as its last holder the
\* thread drops the STLink (stlink.rs:170-176), and a panic in that drop
\* aborts the process.
PanicWith(t, conn, hand) ==
    /\ died_at' = [died_at EXCEPT ![t] = pc[t]]
    /\ IF LastHolder(t)
          THEN LET how == DropPanic(conn[link[t]], hand[link[t]]) IN
               /\ drop_panic' = how
               /\ handle' = Dropped(hand, link[t])
               /\ connected' = IF how = "none" THEN Dropped(conn, link[t])
                                ELSE conn
               /\ pc' = IF how = "none" THEN [pc EXCEPT ![t] = "panicked"]
                        ELSE [Killed EXCEPT ![t] = "panicked"]
          ELSE /\ drop_panic' = drop_panic
               /\ handle' = hand
               /\ connected' = conn
               /\ Goto(t, "panicked")
    /\ UNCHANGED <<cmds, record_samples, osc, task_last_index, base_known,
                   stop_seen, applied, stop_raised, last_cfg, writes, armed_at,
                   first_drain>>
    /\ UNCHANGED <<running, command_list, cur, link, osc_recording, cfg_mem,
                   servo_config, servo_state, link_ok, pushes, sessions>>
    /\ UNCHANGED target

Panic(t) == PanicWith(t, connected, handle)

\* gui_logic.rs:81-85: "Refresh Devices" clears the device list and fills it
\* with what STLink::enumerate() returns, new STLinks that are not connected
\* and hold no handle (stlink.rs:82-104). The STLink that was listed is
\* dropped here unless a live thread still holds it.
GUI_Refresh ==
    /\ drop_panic = "none"
    /\ Inputs < MaxInputs
    /\ cur' = cur + 1
    /\ IF \E u \in Tasks : ~Free(u) /\ link[u] = cur
          THEN UNCHANGED <<connected, handle, drop_panic, pc>>
          ELSE LET how == DropPanic(connected[cur], handle[cur]) IN
               /\ drop_panic' = how
               /\ handle' = Dropped(handle, cur)
               /\ connected' = IF how = "none" THEN Dropped(connected, cur)
                                ELSE connected
               /\ pc' = IF how = "none" THEN pc ELSE Killed
    /\ UNCHANGED <<running, command_list, link, osc_recording, cfg_mem,
                   servo_config, servo_state, link_ok, pushes, sessions>>
    /\ UNCHANGED <<locals, target>>
    /\ UNCHANGED <<lvars, xvars>>

\* Line 226: running.store(true).
S_StoreRunning(t) ==
    /\ pc[t] = "store_running"
    /\ running' = TRUE
    /\ Goto(t, "clear")
    /\ UNCHANGED <<connected, handle, command_list, osc_recording, cfg_mem,
                   servo_config, servo_state, link_ok, pushes, sessions, cur,
                   link, drop_panic>>
    /\ UNCHANGED <<locals, target>>
    /\ UNCHANGED <<lvars, xvars>>

\* Line 228: command_list.lock().clear().
S_Clear(t) ==
    /\ pc[t] = "clear"
    /\ command_list' = <<>>
    /\ Goto(t, "connect")
    /\ UNCHANGED <<running, connected, handle, osc_recording, cfg_mem,
                   servo_config, servo_state, link_ok, pushes, sessions, cur,
                   link, drop_panic>>
    /\ UNCHANGED <<locals, target>>
    /\ UNCHANGED <<lvars, xvars>>

\* Line 230 with stlink.rs:106-115: open the device, claim the interface
\* (each unwrapped), keep the handle, set connected. An interface is claimed
\* by one handle at a time: while the STLink still holds an earlier handle,
\* claim_interface on the new one returns Err and the unwrap panics.
S_Connect(t) ==
    /\ pc[t] = "connect"
    /\ IF link_ok /\ InterfaceFree
          THEN /\ handle' = [handle EXCEPT ![link[t]] = TRUE]
               /\ connected' = [connected EXCEPT ![link[t]] = TRUE]
               /\ Goto(t, "enter_swd")
               /\ UNCHANGED <<running, command_list, osc_recording, cfg_mem,
                              servo_config, servo_state, link_ok, pushes,
                              sessions, cur, link, drop_panic>>
               /\ UNCHANGED <<locals, target>>
          ELSE Panic(t)
    /\ UNCHANGED <<lvars, xvars>>

\* Line 232: enter_debug_swd, one probe transfer.
S_EnterSwd(t) ==
    /\ pc[t] = "enter_swd"
    /\ IF TransferWorks(t)
          THEN /\ Goto(t, "read_config_addr")
               /\ UNCHANGED <<shared, locals, target>>
          ELSE Panic(t)
    /\ UNCHANGED <<lvars, xvars>>

\* Line 234: the u32 at CONFIG_ADDR_ADDR; the model keeps no addresses.
S_ReadConfigAddr(t) ==
    /\ pc[t] = "read_config_addr"
    /\ IF TransferWorks(t)
          THEN /\ Goto(t, "read_base")
               /\ UNCHANGED <<shared, locals, target>>
          ELSE Panic(t)
    /\ UNCHANGED <<lvars, xvars>>

\* Line 238: the base pointer table is bound to `base`.
S_ReadBase(t) ==
    /\ pc[t] = "read_base"
    /\ IF TransferWorks(t)
          THEN /\ base_known' = [base_known EXCEPT ![t] = TRUE]
               /\ Goto(t, "read_osc")
               /\ UNCHANGED <<cmds, record_samples, osc, task_last_index,
                              stop_seen, died_at, applied, stop_raised,
                              last_cfg, writes, armed_at, first_drain>>
               /\ UNCHANGED <<shared, target>>
          ELSE Panic(t)
    /\ UNCHANGED <<lvars, xvars>>

\* Line 240: the Oscilloscope header into the local `osc`.
S_ReadOsc(t) ==
    /\ pc[t] = "read_osc"
    /\ IF TransferWorks(t)
          THEN /\ osc' = [osc EXCEPT ![t] = ReadOscilloscope(osc[t])]
               /\ Goto(t, "arm")
               /\ UNCHANGED <<cmds, record_samples, task_last_index,
                              base_known, stop_seen, died_at, applied,
                              stop_raised, last_cfg, writes, armed_at,
                              first_drain>>
               /\ UNCHANGED <<shared, target>>
          ELSE Panic(t)
    /\ UNCHANGED <<lvars, xvars>>

\* Lines 242-252: set recording in the copy, write the whole copy back,
\* last_index = osc.index, record_samples = true.
S_Arm(t) ==
    /\ pc[t] = "arm"
    /\ IF TransferWorks(t)
          THEN /\ osc' = [osc EXCEPT ![t].recording = TRUE]
               /\ osc_recording' = TRUE
               /\ writes' = writes \cup
                     {WriteAt("oscilloscope_addr", 0, OscilloscopeBytes)}
               /\ osc_index' = osc[t].index
               /\ osc_len' = osc[t].len
               /\ task_last_index' =
                      [task_last_index EXCEPT ![t] = ArmedIndex(osc[t])]
               /\ armed_at' = [armed_at EXCEPT ![t] = produced]
               /\ first_drain' = [first_drain EXCEPT ![t] = NoDrain]
               /\ record_samples' = [record_samples EXCEPT ![t] = TRUE]
               /\ Goto(t, "loop_top")
               /\ UNCHANGED <<running, connected, handle, command_list,
                              cfg_mem, servo_config, servo_state, link_ok,
                              pushes, sessions, cur, link, drop_panic>>
               /\ UNCHANGED <<cmds, base_known, stop_seen, died_at, applied,
                              stop_raised, last_cfg>>
               /\ UNCHANGED <<ring, last_index, d_pc, index, start_off,
                              end_off, data, produced, since_poll, fetched,
                              overrun, tick_last, prev_wrapped, raced>>
               /\ UNCHANGED <<qvars, wvars, cvars>>
          ELSE Panic(t)
    /\ UNCHANGED <<lvars, xvars>>

\* Line 254: the alive flag is read at the top of every iteration.
S_LoopTop(t) ==
    /\ pc[t] = "loop_top"
    /\ stop_seen' = [stop_seen EXCEPT ![t] = ~running]
    /\ Goto(t, IF LoopContinues(running) THEN "take" ELSE "disconnect")
    /\ UNCHANGED <<cmds, record_samples, osc, task_last_index, base_known,
                   died_at, applied, stop_raised, last_cfg, writes, armed_at,
                   first_drain>>
    /\ UNCHANGED <<shared, target>>
    /\ UNCHANGED <<lvars, xvars>>

\* Line 256: take the whole content of the intent queue.
S_Take(t) ==
    /\ pc[t] = "take"
    /\ cmds' = [cmds EXCEPT ![t] = command_list]
    /\ command_list' = <<>>
    /\ last_cfg' = [last_cfg EXCEPT ![t] = NoIntent]
    /\ Goto(t, "apply")
    /\ UNCHANGED <<running, connected, handle, osc_recording, cfg_mem,
                   servo_config, servo_state, link_ok, pushes, sessions, cur,
                   link, drop_panic>>
    /\ UNCHANGED <<record_samples, osc, task_last_index, base_known, stop_seen,
                   died_at, applied, stop_raised, writes, armed_at,
                   first_drain>>
    /\ UNCHANGED target
    /\ UNCHANGED <<lvars, xvars>>

\* send_command as a whole, controller_commands.rs:44-54, for cmd.
SendCommandWhole(cmd) ==
    LET info == ReadCommandBufferInfo
    IN  /\ command_buffer_info' = info
        /\ sc_cmd' = cmd
        /\ IF QueueHasRoom(info)
              THEN /\ cb_data' = [cb_data EXCEPT ![SlotIndex(info)] = cmd]
                   /\ cb_back' = NextBack(info)
                   /\ sent' = Append(sent, cmd)
                   /\ clobbered' = (clobbered \/ SlotIndex(info) \in PendingSlots)
                   /\ sc_result' = "ok"
              ELSE /\ sc_result' = "full"
                   /\ UNCHANGED <<cb_data, cb_back, sent, clobbered>>
        /\ UNCHANGED <<cb_front, cb_capacity, sc_pc, delivered, attempts>>

\* Line 258: `for cmd in cmds` goes through the list from its front.
NextIntentFromBack(list) == list[Len(list)]
NextIntent(list) == Head(list)

\* Lines 258-288: the next intent of the tick's list is applied; an intent
\* that needs the probe panics the task when the transfer fails.
S_Apply(t) ==
    /\ pc[t] = "apply"
    /\ cmds[t] # <<>>
    /\ LET i == NextIntent(cmds[t]) IN
       IF i.kind \in {"StartRecording", "StopRecording"}
          THEN /\ record_samples' =
                     [record_samples EXCEPT ![t] = (i.kind = "StartRecording")]
               /\ cmds' = [cmds EXCEPT ![t] = Tail(cmds[t])]
               /\ applied' = Append(applied, i.id)
               /\ UNCHANGED <<osc, task_last_index, base_known, stop_seen,
                              died_at, stop_raised, last_cfg, writes, armed_at,
                              first_drain>>
               /\ UNCHANGED <<pc, shared, target>>
          ELSE IF ~TransferWorks(t)
          THEN Panic(t)
          ELSE /\ cmds' = [cmds EXCEPT ![t] = Tail(cmds[t])]
               /\ applied' = Append(applied, i.id)
               /\ cfg_mem' =
                     CASE i.kind = "WriteServoConfig" ->
                              StoreWords(cfg_mem, 0, ConfigValue(i.a))
                       [] i.kind = "UpdateConfigParameter" ->
                              StoreWords(cfg_mem, ItemOffset(i.a, 4), <<i.b>>)
                       [] OTHER -> cfg_mem
               /\ last_cfg' =
                     IF i.kind \in {"WriteServoConfig", "UpdateConfigParameter"}
                        THEN [last_cfg EXCEPT ![t] =
                                 [kind |-> i.kind, a |-> i.a, b |-> i.b]]
                        ELSE last_cfg
               /\ writes' = writes \cup
                     IntentWrites(i, [front |-> cb_front, back |-> cb_back,
                                      capacity |-> cb_capacity])
               /\ IF CommandOf(i) # 0
                     THEN SendCommandWhole(CommandOf(i))
                     ELSE UNCHANGED qvars
               /\ UNCHANGED <<running, connected, handle, command_list,
                              osc_recording, servo_config, servo_state,
                              link_ok, pushes, sessions, cur, link,
                              drop_panic>>
               /\ UNCHANGED <<pc, record_samples, osc, task_last_index,
                              base_known, stop_seen, died_at, stop_raised,
                              armed_at, first_drain>>
               /\ UNCHANGED <<rvars, wvars, cvars>>
    /\ UNCHANGED <<lvars, xvars>>

\* Line 290: `if record_samples`; and a tick that drains whatever the flag.
DrainsEveryTick(flag) == TRUE
DrainsThisTick(flag) == flag

\* Line 290: the intents are done; drain only when recording.
S_ApplyDone(t) ==
    /\ pc[t] = "apply"
    /\ cmds[t] = <<>>
    /\ Goto(t, IF DrainsThisTick(record_samples[t]) THEN "drain"
                ELSE "refresh_state")
    /\ UNCHANGED <<shared, locals, target>>
    /\ UNCHANGED <<lvars, xvars>>

\* Lines 291-313 as a whole: header, region, array read, append, trim.
S_Drain(t) ==
    /\ pc[t] = "drain"
    /\ IF TransferWorks(t)
          THEN LET h == ReadOscilloscope(osc[t])
                   r == DrainRegion(h.index, task_last_index[t], h.len)
                   got == ReadSamples(r.end_off - r.start_off, r.start_off)
               IN  /\ osc' = [osc EXCEPT ![t] = h]
                   /\ task_last_index' =
                          [task_last_index EXCEPT ![t] = r.last_index]
                   /\ since_poll' = 0
                   /\ fetched' = fetched + Len(got)
                   /\ sample_buffer' = Trimmed(sample_buffer \o got)
                   /\ appended' = appended + Len(got)
                   /\ first_drain' =
                          IF first_drain[t].done THEN first_drain
                          ELSE [first_drain EXCEPT
                                   ![t] = [done |-> TRUE, got |-> got]]
                   /\ Goto(t, "refresh_state")
                   /\ UNCHANGED <<osc_index, osc_len, ring, last_index, d_pc,
                                  index, start_off, end_off, data, produced,
                                  overrun, tick_last, prev_wrapped, raced,
                                  sb_locked>>
                   /\ UNCHANGED <<cmds, record_samples, base_known, stop_seen,
                                  died_at, applied, stop_raised, last_cfg,
                                  writes, armed_at>>
                   /\ UNCHANGED <<shared, qvars, cvars>>
          ELSE Panic(t)
    /\ UNCHANGED <<lvars, xvars>>

\* Line 315: ServoState into its mirror; the model keeps one opaque value
\* for it, which the firmware model never changes.
S_RefreshState(t) ==
    /\ pc[t] = "refresh_state"
    /\ IF TransferWorks(t)
          THEN /\ Goto(t, "refresh_config")
               /\ UNCHANGED <<shared, locals, target>>
          ELSE Panic(t)
    /\ UNCHANGED <<lvars, xvars>>

\* Line 316: ServoConfig into its mirror.
S_RefreshConfig(t) ==
    /\ pc[t] = "refresh_config"
    /\ IF TransferWorks(t)
          THEN /\ servo_config' = ReadServoConfig(cfg_mem, servo_config)
               /\ Goto(t, "sleep")
               /\ UNCHANGED <<running, connected, handle, command_list,
                              osc_recording, cfg_mem, servo_state, link_ok,
                              pushes, sessions, cur, link, drop_panic>>
               /\ UNCHANGED <<locals, target>>
          ELSE Panic(t)
    /\ UNCHANGED <<lvars, xvars>>

\* Line 319: sleep, then back to the top of the loop.
S_Sleep(t) ==
    /\ pc[t] = "sleep"
    /\ Goto(t, "loop_top")
    /\ UNCHANGED <<shared, locals, target>>
    /\ UNCHANGED <<lvars, xvars>>

\* Line 322 with stlink.rs:117-123: take the handle out (unwrapped), release
\* the interface (unwrapped), clear connected; then the task returns.
S_Disconnect(t) ==
    /\ pc[t] = "disconnect"
    /\ IF ~handle[link[t]]
          THEN Panic(t)
          ELSE IF ~link_ok
          THEN PanicWith(t, connected, Dropped(handle, link[t]))
          ELSE /\ handle' = Dropped(handle, link[t])
               /\ connected' = Dropped(connected, link[t])
               /\ Goto(t, "returned")
               /\ UNCHANGED <<running, command_list, osc_recording, cfg_mem,
                              servo_config, servo_state, link_ok, pushes,
                              sessions, cur, link, drop_panic>>
               /\ UNCHANGED <<cmds, record_samples, osc, task_last_index,
                              base_known, stop_seen, died_at, applied,
                              stop_raised, last_cfg, writes, armed_at,
                              first_drain>>
               /\ UNCHANGED target
    /\ UNCHANGED <<lvars, xvars>>

\* Firmware during a session: it samples, and it consumes commands
\* (FW_Dequeue).
FW_SessionSample ==
    /\ Inputs < MaxInputs
    /\ FW_Sample

Init ==
    /\ SessionParked
    /\ QueueParked
    /\ RingParked
    /\ WindowEmpty
    /\ MarshalParked

Next ==
    \/ GUI_Connect
    \/ GUI_Disconnect
    \/ GUI_Refresh
    \/ \E i \in Intents : GUI_Push(i)
    \/ ENV_LinkFails
    \/ \E t \in Tasks : S_StoreRunning(t)
    \/ \E t \in Tasks : S_Clear(t)
    \/ \E t \in Tasks : S_Connect(t)
    \/ \E t \in Tasks : S_EnterSwd(t)
    \/ \E t \in Tasks : S_ReadConfigAddr(t)
    \/ \E t \in Tasks : S_ReadBase(t)
    \/ \E t \in Tasks : S_ReadOsc(t)
    \/ \E t \in Tasks : S_Arm(t)
    \/ \E t \in Tasks : S_LoopTop(t)
    \/ \E t \in Tasks : S_Take(t)
    \/ \E t \in Tasks : S_Apply(t)
    \/ \E t \in Tasks : S_ApplyDone(t)
    \/ \E t \in Tasks : S_Drain(t)
    \/ \E t \in Tasks : S_RefreshState(t)
    \/ \E t \in Tasks : S_RefreshConfig(t)
    \/ \E t \in Tasks : S_Sleep(t)
    \/ \E t \in Tasks : S_Disconnect(t)
    \/ FW_SessionSample
    \/ FW_Dequeue

Spec == Init /\ [][Next]_vars

\* ------------------------------------------------ claims on the life cycle

PhaseChain ==
    {<<"Idle", "Connecting">>, <<"Connecting", "Discovering">>,
     <<"Discovering", "Running">>, <<"Running", "Disconnecting">>,
     <<"Disconnecting", "Idle">>}

\* C10: every connection task changes phase only along Idle -> Connecting ->
\* Discovering -> Running -> Disconnecting -> Idle (the end of a thread by a
\* panic or with the process is not a move of the machine, and the place of
\* a thread that ended so is Idle for the next one); a task is in Running only with the base
\* pointer table read by it, and it enters Disconnecting only from the top
\* of the loop, having read the alive flag as false there.
C10_PhaseOrder ==
    [][\A t \in Tasks :
         /\ (/\ Phase(pc'[t]) # Phase(pc[t])
             /\ pc'[t] \notin {"panicked", "killed"}) =>
                <<IF pc[t] = "panicked" THEN "Idle" ELSE Phase(pc[t]),
                  Phase(pc'[t])>> \in PhaseChain
         /\ (Phase(pc'[t]) = "Running") => base_known'[t]
         /\ (Phase(pc'[t]) = "Disconnecting") =>
                (stop_seen'[t] /\ pc[t] \in {"loop_top", "disconnect"})
      ]_vars

\* A second thread, spawned after the first went round the whole chain, has
\* run a tick that sent a command and has just left the loop.
C10_Witness ==
    /\ sessions = 2
    /\ pc[1] = "disconnect"
    /\ pc[2] = "unborn"
    /\ base_known[1]
    /\ stop_seen[1]
    /\ Len(sent) > 0

\* The steps of the thread in place t; the operating system schedules every
\* live thread.
TaskStep(t) ==
    \/ S_StoreRunning(t)
    \/ S_Clear(t)
    \/ S_Connect(t)
    \/ S_EnterSwd(t)
    \/ S_ReadConfigAddr(t)
    \/ S_ReadBase(t)
    \/ S_ReadOsc(t)
    \/ S_Arm(t)
    \/ S_LoopTop(t)
    \/ S_Take(t)
    \/ S_Apply(t)
    \/ S_ApplyDone(t)
    \/ S_Drain(t)
    \/ S_RefreshState(t)
    \/ S_RefreshConfig(t)
    \/ S_Sleep(t)
    \/ S_Disconnect(t)

FairSpec == Spec /\ \A t \in Tasks : WF_vars(TaskStep(t))

\* ------------------------------------------------ claims on the failure paths

ConnectPositions ==
    {"connect", "enter_swd", "read_config_addr", "read_base", "read_osc", "arm"}

RefreshPositions == {"drain", "refresh_state", "refresh_config"}

Alive(t) == ~Free(t)

\* C11 as the claim states it: a thread that a failure ended during connect
\* or discovery has run no Running step, and with it ended the alive flag is
\* false and the session is not marked connected, so that the Connect button
\* works again.
C11_FailedAttemptReturnsToIdle_AsStated ==
    \A t \in Tasks :
        (pc[t] = "panicked" /\ died_at[t] \in ConnectPositions) =>
            (~running /\ ~connected[link[t]])

\* C12 as the claim states it: a thread whose drain or mirror refresh failed
\* in a Running tick is followed, eventually, by the interface released, the
\* session not connected and the alive flag false.
C12_RefreshFailureDisconnects_AsStated ==
    \A t \in Tasks :
        (pc[t] = "panicked" /\ died_at[t] \in RefreshPositions) ~>
            (~handle[link[t]] /\ ~connected[link[t]] /\ ~running)

\* C13 as the claim states it: a thread in whose Running tick the alive flag
\* was stored false ends, unless a transfer fails, by calling disconnect with
\* the session left not connected.
C13_StopLeadsToDisconnect_AsStated ==
    \A t \in Tasks :
        (Phase(pc[t]) = "Running" /\ stop_raised[t]) ~>
            \/ /\ pc[t] = "returned" \/ died_at[t] = "disconnect"
               /\ ~connected[link[t]]
            \/ ~link_ok
            \/ died_at[t] \notin {"none", "disconnect"}

\* C14 as the claim states it: at most one thread runs the connection task
\* on the probe at any time.
C14_SinglePoller_AsStated ==
    Cardinality({t \in Tasks : Alive(t)}) <= 1

\* C15 as the claim states it: applying an intent, also one that fails, never
\* ends the thread, so that the rest of the tick runs.
C15_FailedIntentKeepsTick_AsStated ==
    \A t \in Tasks : died_at[t] # "apply"

\* ------------------------------------------------ claims on the intent queue

Ids(list) == [k \in 1..Len(list) |-> list[k].id]

Increasing(seq) == \A i, j \in 1..Len(seq) : i < j => seq[i] < seq[j]

\* C16: the intents are applied in the order in which they were pushed, each
\* at most once: the applied ones are in pushing order without repetition,
\* what a live thread took and has still to apply is in pushing order and
\* was pushed after everything applied, and what waits in the queue was
\* pushed after everything taken.
C16_AppliedInPushOrder ==
    /\ Increasing(applied)
    /\ Increasing(Ids(command_list))
    /\ \A t \in Tasks :
          Alive(t) =>
             /\ Increasing(Ids(cmds[t]))
             /\ Increasing(applied \o Ids(cmds[t]) \o Ids(command_list))

\* Two intents were pushed and a tick has applied both.
C16_Witness ==
    /\ applied = <<1, 2>>
    /\ \E t \in Tasks : pc[t] = "apply" /\ cmds[t] = <<>>
    /\ sessions = 1

\* --------------------------------------------- the commands of one call

\* C18: every memory command sent to the probe covers at most
\* STLINK_MAXIMUM_TRANSFER_SIZE bytes, and the commands of one typed read or
\* write go up in address, each starting where the one before it ended.
C18_ChunksBoundedAndContiguous ==
    /\ \A k \in 1..Len(wire) :
          wire[k].size <= STLINK_MAXIMUM_TRANSFER_SIZE
    /\ \A k \in 1..(Len(wire) - 1) :
          /\ wire[k + 1].kind = wire[k].kind
          /\ wire[k + 1].addr > wire[k].addr
          /\ wire[k + 1].addr = wire[k].addr + wire[k].size

\* A value of 2104 bytes read in three commands of 1024, 1024 and 56 bytes.
C18_Witness ==
    /\ m_op = "read_struct"
    /\ m_pc = "done"
    /\ Len(wire) = 3
    /\ wire[3].size = 56
    /\ wire[3].addr = m_base + 2 * STLINK_MAXIMUM_TRANSFER_SIZE

\* The bytes the commands of `seq` cover together.
RECURSIVE TotalSize(_)
TotalSize(seq) ==
    IF seq = <<>> THEN 0 ELSE Head(seq).size + TotalSize(Tail(seq))

\* C19, as the specification states it: a typed read of m_size > 0 bytes that
\* got through its loop has sent ceil(m_size / 1024) read commands, none of
\* them for zero bytes, which cover m_size bytes together.
C19_ReadCommandCount_AsStated ==
    (m_op \in ReadOps /\ m_size > 0 /\ m_pc \in {"convert", "done"}) =>
        /\ Len(wire) = (m_size + STLINK_MAXIMUM_TRANSFER_SIZE - 1)
                           \div STLINK_MAXIMUM_TRANSFER_SIZE
        /\ \A k \in 1..Len(wire) : wire[k].size > 0
        /\ TotalSize(wire) = m_size

\* C20, as the specification states it: with no transfer failing, write_struct
\* of a value of m_size bytes completes, in commands which cover the value
\* together, as many as the size needs at 1024 bytes a command.
C20_WriteStructChunked_AsStated ==
    (m_op = "write_struct" /\ Finished /\ ~faulted /\ Aligned) =>
        /\ m_pc = "done"
        /\ Len(wire) = (m_size + STLINK_MAXIMUM_TRANSFER_SIZE - 1)
                           \div STLINK_MAXIMUM_TRANSFER_SIZE
        /\ TotalSize(wire) = m_size

\* ------------------------------------------------------ threads and locks

\* One step of a thread's code: lock ("acq") or unlock ("rel") of a mutex,
\* the command of a probe transfer going out ("send") and its answer coming
\* in ("recv"), a condition ("test": on to the next row, or to row alt), a
\* jump, a sleep, the spawn of thread `lock`, the end of the code.
Row(op, lock, line, alt) ==
    [op |-> op, lock |-> lock, line |-> line, alt |-> alt]

\* controller_connection_task, controller_interface.rs:226-323, as the locks see
\* it. A guard made by link.lock() in a statement lives to the end of that
\* statement, so the STLink stays locked for the whole transfer; in lines 315
\* and 316 the value is read first and controller_data is locked after it,
\* with the STLink still locked, and unlocked before it.
PollerCode ==
    <<Row("acq", "controller_commands", 228, 0),
      Row("rel", "controller_commands", 228, 0),
      Row("acq", "dev", 230, 0),
      Row("rel", "dev", 230, 0),
      Row("acq", "dev", 232, 0),
      Row("send", "dev", 232, 0),
      Row("recv", "dev", 232, 0),
      Row("rel", "dev", 232, 0),
      Row("acq", "dev", 234, 0),
      Row("send", "dev", 234, 0),
      Row("recv", "dev", 234, 0),
      Row("rel", "dev", 234, 0),
      Row("acq", "dev", 238, 0),
      Row("send", "dev", 238, 0),
      Row("recv", "dev", 238, 0),
      Row("rel", "dev", 238, 0),
      Row("acq", "dev", 240, 0),
      Row("send", "dev", 240, 0),
      Row("recv", "dev", 240, 0),
      Row("rel", "dev", 240, 0),
      Row("acq", "dev", 244, 0),
      Row("send", "dev", 244, 0),
      Row("recv", "dev", 244, 0),
      Row("rel", "dev", 244, 0),
      Row("test", "", 254, 59),
      Row("acq", "controller_commands", 256, 0),
      Row("rel", "controller_commands", 256, 0),
      Row("test", "", 258, 34),
      Row("acq", "dev", 260, 0),
      Row("send", "dev", 260, 0),
      Row("recv", "dev", 260, 0),
      Row("rel", "dev", 260, 0),
      Row("goto", "", 288, 28),
      Row("test", "", 290, 45),
      Row("acq", "dev", 291, 0),
      Row("send", "dev", 291, 0),
      Row("recv", "dev", 291, 0),
      Row("rel", "dev", 291, 0),
      Row("acq", "dev", 304, 0),
      Row("send", "dev", 304, 0),
      Row("recv", "dev", 304, 0),
      Row("rel", "dev", 304, 0),
      Row("acq", "sample_buffer", 305, 0),
      Row("rel", "sample_buffer", 313, 0),
      Row("acq", "dev", 315, 0),
      Row("send", "dev", 315, 0),
      Row("recv", "dev", 315, 0),
      Row("acq", "controller_data", 315, 0),
      Row("rel", "controller_data", 315, 0),
      Row("rel", "dev", 315, 0),
      Row("acq", "dev", 316, 0),
      Row("send", "dev", 316, 0),
      Row("recv", "dev", 316, 0),
      Row("acq", "controller_data", 316, 0),
      Row("rel", "controller_data", 316, 0),
      Row("rel", "dev", 316, 0),
      Row("sleep", "", 319, 0),
      Row("goto", "", 320, 25),
      Row("acq", "dev", 322, 0),
      Row("rel", "dev", 322, 0),
      Row("end", "", 323, 0) >>

\* GuiState::frame, gui_logic.rs:58-411: dev.lock() for each field shown of the
\* device (87-97), the Connect button, the configuration panel with
\* controller_data locked from line 138 to the end of the block and a push by
\* a changed widget inside it (macro, 38-41), a push by a tool button, the
\* sine button, and the plot with sample_buffer locked (308-408).
GuiCode ==
    <<Row("acq", "dev", 87, 0),
      Row("rel", "dev", 87, 0),
      Row("acq", "dev", 91, 0),
      Row("rel", "dev", 91, 0),
      Row("acq", "dev", 92, 0),
      Row("rel", "dev", 92, 0),
      Row("acq", "dev", 93, 0),
      Row("rel", "dev", 93, 0),
      Row("acq", "dev", 97, 0),
      Row("rel", "dev", 97, 0),
      Row("test", "", 104, 13),
      Row("spawn", "poller", 112, 0),
      Row("test", "", 136, 19),
      Row("acq", "controller_data", 138, 0),
      Row("test", "", 38, 18),
      Row("acq", "controller_commands", 39, 0),
      Row("rel", "controller_commands", 41, 0),
      Row("rel", "controller_data", 212, 0),
      Row("test", "", 230, 22),
      Row("acq", "controller_commands", 231, 0),
      Row("rel", "controller_commands", 231, 0),
      Row("test", "", 259, 24),
      Row("spawn", "sine", 263, 0),
      Row("acq", "sample_buffer", 308, 0),
      Row("rel", "sample_buffer", 408, 0),
      Row("end", "", 411, 0) >>

\* The sine input thread, gui_logic.rs:265-270.
SineCode ==
    <<Row("test", "", 265, 6),
      Row("acq", "controller_commands", 267, 0),
      Row("rel", "controller_commands", 267, 0),
      Row("sleep", "", 268, 0),
      Row("goto", "", 270, 1),
      Row("end", "", 271, 0) >>

\* The code with the drawing thread locking the STLink, in place of the
\* intent queue, inside the configuration panel.
CodeDevInPanel(th) ==
    CASE th = "gui" -> [GuiCode EXCEPT ![16] = Row("acq", "dev", 39, 0),
                                       ![17] = Row("rel", "dev", 41, 0)]
      [] th = "poller" -> PollerCode
      [] th = "sine" -> SineCode
Code(th) ==
    CASE th = "gui" -> GuiCode
      [] th = "poller" -> PollerCode
      [] th = "sine" -> SineCode

\* The row thread th is at; a thread that is not running is at none.
Here(th) ==
    IF at[th] = 0 THEN Row("none", "", 0, 0) ELSE Code(th)[at[th]]

Advance(th, to) ==
    /\ at' = [at EXCEPT ![th] = to]
    /\ waiting' = [waiting EXCEPT ![th] = FALSE]

Others == <<qvars, rvars, wvars, cvars, svars, xvars>>

\* The render loop calls frame() again.
L_FrameBegin ==
    /\ at["gui"] = 0
    /\ Advance("gui", 1)
    /\ UNCHANGED <<holder, in_flight, Others>>

\* Mutex::lock() on a free mutex.
L_Acquire(th) ==
    /\ Here(th).op = "acq"
    /\ holder[Here(th).lock] = "none"
    /\ holder' = [holder EXCEPT ![Here(th).lock] = th]
    /\ Advance(th, at[th] + 1)
    /\ UNCHANGED <<in_flight, Others>>

\* Mutex::lock() on a mutex that is held: the thread parks until it is free.
L_Park(th) ==
    /\ Here(th).op = "acq"
    /\ holder[Here(th).lock] # "none"
    /\ ~waiting[th]
    /\ waiting' = [waiting EXCEPT ![th] = TRUE]
    /\ UNCHANGED <<at, holder, in_flight, Others>>

\* The guard is dropped.
L_Release(th) ==
    /\ Here(th).op = "rel"
    /\ holder' = [holder EXCEPT ![Here(th).lock] = "none"]
    /\ Advance(th, at[th] + 1)
    /\ UNCHANGED <<in_flight, Others>>

\* stlink.rs:151-167, transfer(): the command is written to the probe ...
L_Send(th) ==
    /\ Here(th).op = "send"
    /\ in_flight' = TRUE
    /\ Advance(th, at[th] + 1)
    /\ UNCHANGED <<holder, Others>>

\* ... and the answer is read, or the read times out.
L_Receive(th) ==
    /\ Here(th).op = "recv"
    /\ in_flight' = FALSE
    /\ Advance(th, at[th] + 1)
    /\ UNCHANGED <<holder, Others>>

L_Sleep(th) ==
    /\ Here(th).op = "sleep"
    /\ Advance(th, at[th] + 1)
    /\ UNCHANGED <<holder, in_flight, Others>>

\* A condition that holds, and one that does not.
L_Continue(th) ==
    /\ Here(th).op = "test"
    /\ Advance(th, at[th] + 1)
    /\ UNCHANGED <<holder, in_flight, Others>>

L_Branch(th) ==
    /\ Here(th).op = "test"
    /\ Advance(th, Here(th).alt)
    /\ UNCHANGED <<holder, in_flight, Others>>

L_Goto(th) ==
    /\ Here(th).op = "goto"
    /\ Advance(th, Here(th).alt)
    /\ UNCHANGED <<holder, in_flight, Others>>

\* std::thread::spawn, gui_logic.rs:112 and 263.
L_Spawn(th) ==
    /\ Here(th).op = "spawn"
    /\ at[Here(th).lock] = 0
    /\ at' = [at EXCEPT ![th] = at[th] + 1, ![Here(th).lock] = 1]
    /\ UNCHANGED <<waiting, holder, in_flight, Others>>

\* The function returns.
L_End(th) ==
    /\ Here(th).op = "end"
    /\ Advance(th, 0)
    /\ UNCHANGED <<holder, in_flight, Others>>

FrameInit ==
    /\ SessionParked
    /\ QueueParked
    /\ RingParked
    /\ WindowEmpty
    /\ MarshalParked

FrameNext ==
    \/ L_FrameBegin
    \/ \E th \in Threads : L_Acquire(th)
    \/ \E th \in Threads : L_Park(th)
    \/ \E th \in Threads : L_Release(th)
    \/ \E th \in Threads : L_Send(th)
    \/ \E th \in Threads : L_Receive(th)
    \/ \E th \in Threads : L_Sleep(th)
    \/ \E th \in Threads : L_Continue(th)
    \/ \E th \in Threads : L_Branch(th)
    \/ \E th \in Threads : L_Goto(th)
    \/ \E th \in Threads : L_Spawn(th)
    \/ \E th \in Threads : L_End(th)

SpecFrame == FrameInit /\ [][FrameNext]_vars

\* C17, as the specification states it: the drawing thread is never parked
\* on a mutex that a connection task holds while a probe transfer of that
\* task is in flight.
C17_FrameNeverWaitsForTransfer_AsStated ==
    ~ /\ waiting["gui"]
      /\ Here("gui").op = "acq"
      /\ holder[Here("gui").lock] = "poller"
      /\ in_flight

\* ------------------------------------------- misaligned memory operations

\* C21, as the specification states it: of a typed read or write whose
\* address or size is no multiple of 4, no command reaches the probe, the
\* commands for its earlier chunks included.
C21_MisalignedSendsNothing_AsStated ==
    (m_op # "none" /\ ~Aligned) => wire = <<>>

\* --------------------------------------------------- writes to ServoConfig

\* The thread in place t reads ServoConfig into the mirror.
Publishes(t) == pc[t] = "refresh_config" /\ pc'[t] = "sleep"

\* C22: in a tick in which WriteServoConfig(cfg) was the last intent to
\* write to ServoConfig, ServoConfig read back from target memory is cfg,
\* word for word, and so is the mirror as the tick's refresh leaves it.
C22_ConfigRoundTrip ==
    [][\A t \in Tasks :
         (Publishes(t) /\ last_cfg[t].kind = "WriteServoConfig") =>
             /\ WordsAt(cfg_mem, 0, ServoConfigBytes)
                    = ConfigValue(last_cfg[t].a)
             /\ servo_config' = ConfigValue(last_cfg[t].a)]_vars

C22_Witness ==
    \E t \in Tasks :
        /\ pc[t] = "sleep"
        /\ last_cfg[t].kind = "WriteServoConfig"
        /\ servo_config = ConfigValue(1)
        /\ servo_config # DefaultConfig

\* The step in which task t applies the intent UpdateConfigParameter.
AppliesUpdate(t) ==
    /\ pc[t] = "apply"
    /\ cmds[t] # <<>>
    /\ NextIntent(cmds[t]).kind = "UpdateConfigParameter"
    /\ cmds'[t] # cmds[t]

\* C23: applying UpdateConfigParameter(offset, value) sends one write, of 4
\* bytes at servo_config_addr + 4 * offset, which stores value there and
\* leaves every other field of ServoConfig and the rest of target memory as
\* they were; and the ServoConfig read at the end of a tick whose last write
\* to ServoConfig it was shows value in field number offset.
C23_ParameterUpdateFrame ==
    /\ [][\A t \in Tasks :
             AppliesUpdate(t) =>
                LET i == NextIntent(cmds[t]) IN
                /\ writes' \ writes \subseteq
                       {WriteAt("servo_config_addr", 4 * i.a, 4)}
                /\ WriteAt("servo_config_addr", 4 * i.a, 4) \in writes'
                /\ cfg_mem'[4 * i.a] = i.b
                /\ \A x \in ConfigOffsets \ {4 * i.a} : cfg_mem'[x] = cfg_mem[x]
                /\ UNCHANGED <<cb_front, cb_back, cb_capacity, cb_data,
                               osc_recording, osc_index, osc_len, ring>>]_vars
    /\ [][\A t \in Tasks :
             (Publishes(t) /\ last_cfg[t].kind = "UpdateConfigParameter") =>
                 /\ cfg_mem[4 * last_cfg[t].a] = last_cfg[t].b
                 /\ servo_config'[last_cfg[t].a + 1] = last_cfg[t].b]_vars

C23_Witness ==
    \E t \in Tasks :
        /\ pc[t] = "sleep"
        /\ last_cfg[t] = [kind |-> "UpdateConfigParameter", a |-> 6, b |-> 2]
        /\ servo_config[7] = 2
        /\ \A k \in (1..ServoConfigFields) \ {7} : servo_config[k] = 0
        /\ WriteAt("servo_config_addr", 24, 4) \in writes

\* ------------------------------------------------ claims on the STLink's end

\* C24 as the claim states it: every drop of an STLink that is connected
\* disconnects it, whatever failed before: no drop ends in a panic, neither
\* on a handle that is missing nor on a release that fails.
C24_DropDisconnects_AsStated == drop_panic = "none"

\* ------------------------------------------------ claims on the transport

\* C25 as the claim states it: a get_mem32 that returns has read exactly the
\* bytes it asked for; a read that came back short ends in an error (here: a
\* panic), never in a shorter buffer handed to the caller.
C25_ExactLengthRead_AsStated ==
    [][(m_pc = "loop" /\ m_op \in ReadOps /\ m_pc' # "panicked") =>
           4 * (Len(m_buffer') - Len(m_buffer)) = ChunkSize(m_len)]_vars

\* ------------------------------------------------ the transfer of a command

\* Transfers begun in a run of the model.
MaxTransfers == 3

\* stlink.rs:181, 206, 207, 219, 221, 237
STLINK_DEBUG_COMMAND == 242
STLINK_DEBUG_READMEM_32BIT == 7
STLINK_DEBUG_WRITEMEM_32BIT == 8
STLINK_DEBUG_APIV2_ENTER == 48
STLINK_DEBUG_APIV2_RESETSYS == 50
STLINK_DEBUG_ENTER_SWD == 163

\* u32::to_le_bytes
LeBytes(n) ==
    <<n % 256, (n \div 256) % 256, (n \div 65536) % 256,
      (n \div 16777216) % 256>>

\* The bytes a write is called with (none of them zero).
Payload(n) == [i \in 1..n |-> 160 + i]

\* The calls that reach transfer(): enter_debug_swd (stlink.rs:304-307),
\* debug_resetsys (309-312), get_mem32 (314-331) and set_mem32 (333-346) on
\* an address in RAM, each with the command, payload and response buffer it
\* passes.
ProbeAddrs == {536871168}
ProbeSizes == {0, 4, 8}
ProbeCalls ==
    {[name |-> "enter_debug_swd",
      cmd |-> <<STLINK_DEBUG_COMMAND, STLINK_DEBUG_APIV2_ENTER,
                STLINK_DEBUG_ENTER_SWD>>,
      data |-> <<>>, has_data |-> FALSE, rx |-> TRUE],
     [name |-> "debug_resetsys",
      cmd |-> <<STLINK_DEBUG_COMMAND, STLINK_DEBUG_APIV2_RESETSYS>>,
      data |-> <<>>, has_data |-> FALSE, rx |-> TRUE]}
    \cup {[name |-> "get_mem32",
           cmd |-> <<STLINK_DEBUG_COMMAND, STLINK_DEBUG_READMEM_32BIT>>
                       \o LeBytes(a) \o LeBytes(n),
           data |-> <<>>, has_data |-> FALSE, rx |-> TRUE] :
              a \in ProbeAddrs, n \in ProbeSizes}
    \cup {[name |-> "set_mem32",
           cmd |-> <<STLINK_DEBUG_COMMAND, STLINK_DEBUG_WRITEMEM_32BIT>>
                       \o LeBytes(a) \o LeBytes(n),
           data |-> Payload(n), has_data |-> TRUE, rx |-> FALSE] :
              a \in ProbeAddrs, n \in ProbeSizes}

\* stlink.rs:152-154: without the copy of the command, and the frame itself.
CommandUnpadded(cmd) == cmd
CommandFrame(cmd) == cmd \o [i \in 1..(16 - Len(cmd)) |-> 0]

\* One call of write() or read() on the transport, as the log keeps it: the
\* transfer it belongs to, which of the three steps of transfer() made it,
\* the command of that transfer, and the bytes written (for a read: none).
UsbOp(c, part, kind, bytes, ok) ==
    [id |-> x_count, by |-> c, part |-> part, kind |-> kind,
     cmd |-> x_call[c].cmd, bytes |-> bytes, ok |-> ok]

XGoto(c, to) == x_pc' = [x_pc EXCEPT ![c] = to]

\* A panic in read() or write() unwinds the caller: the guard of the STLink
\* is released and the thread is gone.
XPanic(c) ==
    /\ XGoto(c, "dead")
    /\ x_owner' = 0

\* link.lock(): controller_interface.rs:230-322, every use of the STLink is
\* made with its mutex held.
X_Lock(c) ==
    /\ x_pc[c] = "idle"
    /\ x_owner = 0
    /\ x_owner' = c
    /\ XGoto(c, "locked")
    /\ UNCHANGED <<x_call, usb, x_count>>
    /\ UNCHANGED <<qvars, rvars, wvars, cvars, svars, lvars>>

\* A method of the STLink calls transfer(), stlink.rs:151.
X_Call(c, call) ==
    /\ x_pc[c] = "locked"
    /\ x_count < MaxTransfers
    /\ x_call' = [x_call EXCEPT ![c] = call]
    /\ x_count' = x_count + 1
    /\ XGoto(c, "command")
    /\ UNCHANGED <<x_owner, usb>>
    /\ UNCHANGED <<qvars, rvars, wvars, cvars, svars, lvars>>

\* stlink.rs:152-156: the command copied into a zeroed buffer of 16 bytes,
\* and that buffer written; write() panics unless all of it was taken.
X_WriteCommand(c, ok) ==
    /\ x_pc[c] = "command"
    /\ usb' = Append(usb, UsbOp(c, "command", "write",
                                CommandFrame(x_call[c].cmd), ok))
    /\ IF ok THEN XGoto(c, "payload") /\ UNCHANGED x_owner ELSE XPanic(c)
    /\ UNCHANGED <<x_call, x_count>>
    /\ UNCHANGED <<qvars, rvars, wvars, cvars, svars, lvars>>

\* stlink.rs:158-160: the payload, when there is one.
X_WritePayload(c, ok) ==
    /\ x_pc[c] = "payload"
    /\ IF x_call[c].has_data
          THEN /\ usb' = Append(usb, UsbOp(c, "payload", "write",
                                           x_call[c].data, ok))
               /\ IF ok THEN XGoto(c, "response") /\ UNCHANGED x_owner
                        ELSE XPanic(c)
          ELSE /\ ok
               /\ XGoto(c, "response")
               /\ UNCHANGED <<usb, x_owner>>
    /\ UNCHANGED <<x_call, x_count>>
    /\ UNCHANGED <<qvars, rvars, wvars, cvars, svars, lvars>>

\* stlink.rs:162-166: the response, when a buffer was passed for it; then
\* transfer() returns.
X_ReadResponse(c, ok) ==
    /\ x_pc[c] = "response"
    /\ IF x_call[c].rx
          THEN /\ usb' = Append(usb, UsbOp(c, "response", "read", <<>>, ok))
               /\ IF ok THEN XGoto(c, "locked") /\ UNCHANGED x_owner
                        ELSE XPanic(c)
          ELSE /\ ok
               /\ XGoto(c, "locked")
               /\ UNCHANGED <<usb, x_owner>>
    /\ UNCHANGED <<x_call, x_count>>
    /\ UNCHANGED <<qvars, rvars, wvars, cvars, svars, lvars>>

\* The end of the statement: the guard is dropped.
X_Unlock(c) ==
    /\ x_pc[c] = "locked"
    /\ x_owner' = 0
    /\ XGoto(c, "idle")
    /\ UNCHANGED <<x_call, usb, x_count>>
    /\ UNCHANGED <<qvars, rvars, wvars, cvars, svars, lvars>>

TransferInit ==
    /\ SessionParked
    /\ QueueParked
    /\ RingParked
    /\ WindowEmpty
    /\ MarshalParked

TransferNext ==
    \/ \E c \in Callers : X_Lock(c)
    \/ \E c \in Callers, call \in ProbeCalls : X_Call(c, call)
    \/ \E c \in Callers, ok \in BOOLEAN : X_WriteCommand(c, ok)
    \/ \E c \in Callers, ok \in BOOLEAN : X_WritePayload(c, ok)
    \/ \E c \in Callers, ok \in BOOLEAN : X_ReadResponse(c, ok)
    \/ \E c \in Callers : X_Unlock(c)

SpecTransfer == TransferInit /\ [][TransferNext]_vars

\* C26: every transfer begins with one write of 16 bytes, the command
\* followed by zeros; a payload write comes directly after the command
\* write of its own transfer, a response read directly after the command
\* write (no payload) or the payload write of its own transfer; so no
\* operation of another transfer lies between the operations of one.
C26_FrameAndOrder ==
    \A i \in 1..Len(usb) :
        LET op == usb[i] IN
        /\ (op.part = "command") =>
               /\ op.kind = "write"
               /\ Len(op.bytes) = 16
               /\ SubSeq(op.bytes, 1, Len(op.cmd)) = op.cmd
               /\ \A j \in (Len(op.cmd) + 1)..16 : op.bytes[j] = 0
               /\ \A k \in 1..Len(usb) : (k # i /\ usb[k].id = op.id) => k > i
        /\ (op.part = "payload") =>
               /\ op.kind = "write"
               /\ i > 1 /\ usb[i - 1].id = op.id /\ usb[i - 1].part = "command"
        /\ (op.part = "response") =>
               /\ op.kind = "read"
               /\ i > 1 /\ usb[i - 1].id = op.id
               /\ usb[i - 1].part \in {"command", "payload"}
        /\ (i > 1 /\ usb[i - 1].id # op.id) => op.part = "command"

\* Two callers have each completed a transfer, a write to memory with its
\* payload and a read of memory with its response, one after the other.
C26_Witness ==
    /\ Len(usb) = 4
    /\ usb[1].by # usb[3].by
    /\ usb[1].part = "command" /\ usb[2].part = "payload"
    /\ usb[3].part = "command" /\ usb[4].part = "response"
    /\ usb[1].cmd[2] = STLINK_DEBUG_WRITEMEM_32BIT
    /\ usb[3].cmd[2] = STLINK_DEBUG_READMEM_32BIT
    /\ \A i \in 1..4 : usb[i].ok

\* ------------------------------------------------ claims on the headers

\* The thread in place t applies an intent that sends a command.
SendsCommand(t) ==
    /\ pc[t] = "apply"
    /\ cmds[t] # <<>>
    /\ cmds'[t] # cmds[t]
    /\ CommandOf(NextIntent(cmds[t])) # 0

\* The thread in place t drains.
Drains(t) == pc[t] = "drain" /\ pc'[t] = "refresh_state"

\* C27: a send_command decides on the header as target memory holds it when
\* the command is applied (full or not, and which slot and which new back),
\* and a drain computes its region from the oscilloscope header as target
\* memory holds it in that tick; the firmware may have moved front and index
\* since the thread last looked.
C27_HeadersReadAfresh ==
    [][\A t \in Tasks :
         /\ SendsCommand(t) =>
              LET info == [front |-> cb_front, back |-> cb_back,
                           capacity |-> cb_capacity]
                  cmd == CommandOf(NextIntent(cmds[t]))
              IN  /\ command_buffer_info' = info
                  /\ (sc_result' = "ok") = QueueHasRoom(info)
                  /\ QueueHasRoom(info) =>
                        /\ cb_data'[cb_back] = cmd
                        /\ cb_back' = (cb_back + 1) % cb_capacity
                  /\ ~QueueHasRoom(info) => UNCHANGED <<cb_data, cb_back>>
         /\ Drains(t) =>
              LET r == DrainRegion(osc_index, task_last_index[t], osc_len)
              IN  /\ osc'[t].index = osc_index
                  /\ osc'[t].len = osc_len
                  /\ task_last_index'[t] = r.last_index
                  /\ appended' - appended = r.end_off - r.start_off
      ]_vars

\* A thread has sent a command and, in the same tick, drained a sample that
\* the firmware produced after the thread's earlier read of the header.
C27_Witness ==
    \E t \in Tasks :
        /\ pc[t] = "refresh_state"
        /\ Len(sent) = 1
        /\ command_buffer_info.back = 0
        /\ cb_back = 1
        /\ appended = 1
        /\ osc[t].index = osc_index
        /\ osc[t].index # 0

\* ------------------------------------------------ claims on ServoState

\* controller_interface.rs:104-131, 134-142, 145-153: the sizes of ServoState
\* and ServoPointers, and where ServoData has its state: after the
\* configuration and the pointers.
ServoStateBytes == 68
ServoPointersBytes == 20
ServoStateOffset == ServoConfigBytes + ServoPointersBytes

\* The write w covers a byte of ServoState, reached from its own pointer or,
\* in a ServoData, from the pointer to the configuration.
HitsServoState(w) ==
    \/ /\ w.ptr = "servo_state_addr"
       /\ w.off < ServoStateBytes
       /\ w.off + w.size > 0
    \/ /\ w.ptr = "servo_config_addr"
       /\ w.off < ServoStateOffset + ServoStateBytes
       /\ w.off + w.size > ServoStateOffset

Arms(t) == pc[t] = "arm" /\ pc'[t] = "loop_top"

\* C29: arming sets recording in the header, and the thread's last_index is
\* the index the header holds when it has been armed; what the thread's
\* first drain appends are samples the firmware produced after the arming.
C29_FirstDrainAfterArming ==
    /\ [][\A t \in Tasks :
            Arms(t) => /\ osc_recording'
                       /\ record_samples'[t]
                       /\ task_last_index'[t] = osc_index']_vars
    /\ [](\A t \in Tasks :
            first_drain[t].done =>
                \A k \in 1..Len(first_drain[t].got) :
                    first_drain[t].got[k] > armed_at[t])

\* The firmware produced a sample between the thread's read of the header
\* and its arming and another after it, and the first drain appended the
\* later one alone.
C29_Witness ==
    \E t \in Tasks :
        /\ first_drain[t].done
        /\ armed_at[t] = 1
        /\ first_drain[t].got = <<2>>
        /\ sample_buffer = <<2>>

\* The thread in place t is in a tick that began with its recording off or
\* in which a StopRecording was applied last: record_samples is false.
Paused(t) == Phase(pc[t]) = "Running" /\ ~record_samples[t]

\* C30: recording is on when the loop is entered; a thread drains only with
\* its record_samples true, which an applied StartRecording sets and an
\* applied StopRecording clears; and no step of a thread whose
\* record_samples is false reads the oscilloscope header or the array or
\* changes the sample window.
C30_DrainOnlyWhileRecording ==
    /\ [](\A t \in Tasks : pc[t] = "drain" => record_samples[t])
    /\ [][\A t \in Tasks :
            /\ Arms(t) => record_samples'[t]
            /\ (pc[t] = "apply" /\ cmds[t] # <<>> /\ cmds'[t] # cmds[t]
                  /\ NextIntent(cmds[t]).kind = "StopRecording") =>
                   ~record_samples'[t]
            /\ (pc[t] = "apply" /\ cmds[t] # <<>> /\ cmds'[t] # cmds[t]
                  /\ NextIntent(cmds[t]).kind = "StartRecording") =>
                   record_samples'[t]
            /\ (Paused(t) /\ pc'[t] # pc[t]) =>
                   /\ pc'[t] # "drain"
                   /\ UNCHANGED <<sample_buffer, appended, fetched,
                                  task_last_index, osc>>]_vars

\* A thread with recording stopped has gone through a whole tick, past the
\* place of the drain, while the firmware had a sample waiting, and the
\* window is still empty.
C30_Witness ==
    \E t \in Tasks :
        /\ pc[t] = "sleep"
        /\ ~record_samples[t]
        /\ Len(applied) = 1
        /\ produced = 1
        /\ armed_at[t] = 0
        /\ sample_buffer = <<>>

\* ------------------------------------------------ claims on the tick

\* The moves inside the loop, controller_interface.rs:254-320, in the order
\* of the text.
TickSteps ==
    {<<"loop_top", "take">>, <<"loop_top", "disconnect">>,
     <<"take", "apply">>, <<"apply", "drain">>, <<"apply", "refresh_state">>,
     <<"drain", "refresh_state">>, <<"refresh_state", "refresh_config">>,
     <<"refresh_config", "sleep">>, <<"sleep", "loop_top">>}

\* C31: a thread in the loop moves only along: take the intents, apply them
\* all, drain if recording (and only then), read ServoState, read
\* ServoConfig, sleep; and the read of ServoConfig leaves in the mirror the
\* whole struct as target memory holds it, with the configuration write or
\* parameter update of that tick in it.
C31_TickOrder ==
    /\ [][\A t \in Tasks :
            (/\ Phase(pc[t]) = "Running"
             /\ pc'[t] # pc[t]
             /\ pc'[t] \notin {"panicked", "killed"}) =>
                /\ <<pc[t], pc'[t]>> \in TickSteps
                /\ (pc[t] = "apply") =>
                       /\ cmds[t] = <<>>
                       /\ (pc'[t] = "drain") = record_samples[t]]_vars
    /\ [][\A t \in Tasks :
            Publishes(t) =>
                /\ servo_config' = WordsAt(cfg_mem, 0, ServoConfigBytes)
                /\ (last_cfg[t].kind = "WriteServoConfig") =>
                       servo_config' = ConfigValue(last_cfg[t].a)
                /\ (last_cfg[t].kind = "UpdateConfigParameter") =>
                       servo_config'[last_cfg[t].a + 1] = last_cfg[t].b]_vars

\* A thread sleeps at the end of a tick in which it applied a parameter
\* update and drained, with the update in the mirror.
C31_Witness ==
    \E t \in Tasks :
        /\ pc[t] = "sleep"
        /\ last_cfg[t].kind = "UpdateConfigParameter"
        /\ first_drain[t].done
        /\ record_samples[t]
        /\ servo_config[7] = 2

\* ------------------------------------------------ claims on send_command

\* C32: a send_command that finds room sends two writes, the command into
\* the slot at index back of the array and 4 bytes onto the back field of
\* the header (bytes 4..7, after front and before capacity and data_addr),
\* and changes nothing else of the queue in target memory; one that finds
\* the queue full sends no write and leaves target memory as it was.
C32_SendCommandWritesConfined ==
    [][\A t \in Tasks :
         SendsCommand(t) =>
            LET new == writes' \ writes
                full == (cb_back + 1) % cb_capacity = cb_front
            IN  /\ UNCHANGED <<cb_front, cb_capacity, cfg_mem, osc_recording,
                               osc_index, osc_len, ring>>
                /\ \A w \in new :
                      \/ /\ w.ptr = "data_addr"
                         /\ w.off = CommandBytes * cb_back
                         /\ w.size = CommandBytes
                      \/ /\ w.ptr = "command_buffer_addr"
                         /\ w.off = 4
                         /\ w.size = 4
                /\ \A k \in DOMAIN cb_data :
                      (k # cb_back) => cb_data'[k] = cb_data[k]
                /\ full => /\ writes' = writes
                           /\ UNCHANGED <<cb_data, cb_back>>
                           /\ sc_result' = "full"
                /\ ~full => /\ WriteAt("command_buffer_addr", 4, 4) \in writes'
                            /\ WriteAt("data_addr", CommandBytes * cb_back,
                                       CommandBytes) \in writes'
       ]_vars

\* A thread has sent one command and then found the queue full with the
\* next: one slot write and one write of the back field, and no more.
C32_Witness ==
    /\ sc_result = "full"
    /\ Len(sent) = 1
    /\ Len(applied) = 2
    /\ cb_back = 1 /\ cb_front = 0
    /\ WriteAt("command_buffer_addr", 4, 4) \in writes
    /\ WriteAt("data_addr", 0, CommandBytes) \in writes
    /\ ~(WriteAt("data_addr", CommandBytes, CommandBytes) \in writes)

\* ------------------------------------------------ claims on arming

\* C33 as the claim states it: the arming write changes the recording field
\* alone; index and len in target memory are after it what the firmware
\* last stored there, also when the firmware advanced index after the
\* thread's read of the header.
C33_ArmingWritesRecordingOnly_AsStated ==
    [][\A t \in Tasks :
         Arms(t) => /\ osc_recording'
                    /\ osc_index' = osc_index
                    /\ osc_len' = osc_len]_vars

\* ------------------------------------------- claims on parameter updates

Transfers(t) ==
    /\ pc[t] \in {"enter_swd", "read_config_addr", "read_base", "read_osc",
                  "arm", "drain", "refresh_state", "refresh_config"}
    /\ pc'[t] # pc[t]

\* C35 as the claim states it: while the process lives, in every state
\* between two operations on an STLink, also after a connect or a disconnect
\* that failed, connected is true exactly when the STLink holds a handle;
\* and no task sends a transfer through an STLink that holds none.
C35_ConnectedIffHandle_AsStated ==
    /\ [](drop_panic = "none" =>
             \A o \in Links : connected[o] <=> handle[o])
    /\ [][\A t \in Tasks : Transfers(t) => handle[link[t]]]_vars

\* ------------------------------------------------ claims on the shared locks

\* Thread th is at a lock() of a mutex that is held.
Blocked(th) ==
    /\ Here(th).op = "acq"
    /\ holder[Here(th).lock] # "none"

\* C36: the drawing thread, the connection task and the sine thread never
\* deadlock on the four mutexes (STLink, ControllerData, sample window,
\* intent queue): in no reachable state is there a set of threads each of
\* which is blocked on a mutex held by a thread of the set.
C36_NoDeadlock ==
    \A S \in (SUBSET Threads) \ {{}} :
        ~ \A th \in S : Blocked(th) /\ holder[Here(th).lock] \in S

\* The longest chain of waits there is: the connection task holds the STLink
\* and is parked on ControllerData, which the drawing thread holds while it
\* is parked on the intent queue, which the sine thread holds.
C36_Witness ==
    /\ holder["dev"] = "poller"
    /\ waiting["poller"] /\ Here("poller").lock = "controller_data"
    /\ holder["controller_data"] = "gui"
    /\ waiting["gui"] /\ Here("gui").lock = "controller_commands"
    /\ holder["controller_commands"] = "sine"

\* ----------------------------------------- claims on the clear of the queue

\* The step in which task t clears the intent queue.
Clears(t) == pc[t] = "clear" /\ pc'[t] = "connect"

\* C37 as the claim states it: the clear at the start of a session removes
\* only intents that were pushed before the session set the alive flag; no
\* intent pushed after it is thrown away by the clear.
C37_ClearRemovesOnlyEarlier_AsStated ==
    [][\A t \in Tasks :
         Clears(t) =>
             \A k \in 1..Len(command_list) : t \notin command_list[k].early]_vars

\* ------------------------------------ send_command on any header content

\* controller_commands.rs:47: `%` on u32 panics when the divisor is 0
\* ("attempt to calculate the remainder with a divisor of zero"), in every
\* build; the panic leaves send_command and unwinds the thread that called
\* it (.ok() at controller_interface.rs:270-282 takes the Err only).
RemainderPanics(info) == info.capacity = 0

\* A call of send_command by the connection task, whatever front, back and
\* capacity the header in target memory holds: the header is read, and the
\* test of line 47 panics or decides between the two writes and Err(()).
SC_Call(cmd) ==
    /\ sc_pc = "idle"
    /\ Len(sent) < MaxCalls
    /\ IF RemainderPanics(ReadCommandBufferInfo)
          THEN /\ command_buffer_info' = ReadCommandBufferInfo
               /\ sc_cmd' = cmd
               /\ sc_pc' = "panicked"
               /\ sc_result' = "panic"
               /\ UNCHANGED <<cb_front, cb_back, cb_capacity, cb_data, sent,
                              delivered, clobbered, attempts>>
          ELSE SendCommandWhole(cmd)
    /\ UNCHANGED <<rvars, wvars, cvars, svars>>
    /\ UNCHANGED <<lvars, xvars>>

\* The firmware, or a reset of the target, stores another header.
FW_StoreHeader(f, b, c) ==
    /\ sc_pc = "idle"
    /\ <<f, b, c>> # <<cb_front, cb_back, cb_capacity>>
    /\ cb_front' = f
    /\ cb_back' = b
    /\ cb_capacity' = c
    /\ UNCHANGED <<cb_data, sc_pc, command_buffer_info, sc_cmd, sc_result,
                   sent, delivered, clobbered, attempts>>
    /\ UNCHANGED <<rvars, wvars, cvars, svars>>
    /\ UNCHANGED <<lvars, xvars>>

\* The header holds any three words; the memory behind data_addr is there
\* whatever capacity says.
HeaderInit ==
    /\ SessionParked
    /\ RingParked
    /\ WindowEmpty
    /\ MarshalParked
    /\ cb_capacity \in 0..MaxHeader
    /\ cb_front \in 0..MaxHeader
    /\ cb_back \in 0..MaxHeader
    /\ cb_data = [i \in 0..MaxHeader |-> 0]
    /\ sc_pc = "idle"
    /\ command_buffer_info = [front |-> 0, back |-> 0, capacity |-> 0]
    /\ sc_cmd = 0
    /\ sc_result = "none"
    /\ sent = <<>>
    /\ delivered = <<>>
    /\ clobbered = FALSE
    /\ attempts = 0

HeaderNext ==
    \/ \E cmd \in Commands : SC_Call(cmd)
    \/ \E f \in 0..MaxHeader, b \in 0..MaxHeader, c \in 0..MaxHeader :
           FW_StoreHeader(f, b, c)

SpecHeader == HeaderInit /\ [][HeaderNext]_vars

\* C38 as the claim states it: whatever the header read from target memory
\* holds, capacity 0 and capacity 1 included, a call of send_command ends
\* with success or with queue-full, and the thread that called it goes on.
C38_SendCommandNeverAborts_AsStated ==
    /\ sc_result \in {"none", "ok", "full"}
    /\ sc_pc # "panicked"

\* --------------------------------------------- recording paused and resumed

\* controller_interface.rs:263-268: StartRecording and StopRecording set the
\* task's record_samples and nothing else; no transfer is made, last_index
\* stays, and the firmware is told nothing. They are applied at the start
\* of a tick, before its drain.
SetRecording(flag) ==
    /\ d_pc = "header"
    /\ record_samples[1] # flag
    /\ record_samples' = [record_samples EXCEPT ![1] = flag]
    /\ UNCHANGED <<shared, pc, cmds, osc, task_last_index, base_known,
                   stop_seen, died_at, applied, stop_raised, last_cfg, writes,
                   armed_at, first_drain>>
    /\ UNCHANGED <<qvars, rvars, wvars, cvars>>
    /\ UNCHANGED <<lvars, xvars>>

P_StopRecording ==
    /\ record_samples[1]
    /\ SetRecording(FALSE)

P_StartRecording ==
    /\ ~record_samples[1]
    /\ SetRecording(TRUE)

\* Line 290: the tick drains when record_samples is set.
P_DrainHeader ==
    /\ DrainsThisTick(record_samples[1])
    /\ D_ReadHeader

\* The firmware across a pause. While the task records, the firmware
\* produces as long as fewer than len samples are unread, the rate at which
\* the window is exact (C2); while the task is paused it goes on producing
\* at its own rate, round the ring as often as the pause lasts.
FW_PauseSample ==
    /\ produced < MaxProduced
    /\ record_samples[1] => (produced + 1) - fetched < osc_len
    /\ ring' = [ring EXCEPT ![osc_index] = produced + 1]
    /\ osc_index' = (osc_index + 1) % osc_len
    /\ produced' = produced + 1
    /\ since_poll' = since_poll + 1
    /\ overrun' = (overrun \/ (produced + 1) - fetched >= osc_len)
    /\ raced' = (raced \/ d_pc = "array")
    /\ UNCHANGED <<osc_len, last_index, d_pc, index, start_off, end_off, data,
                   fetched, tick_last, prev_wrapped, wvars>>
    /\ UNCHANGED <<qvars, cvars, svars>>
    /\ UNCHANGED <<lvars, xvars>>

\* The session is armed (lines 240-252, last_index = osc.index) and its
\* first tick has applied StopRecording.
PauseInit == RingInit

PauseNext ==
    \/ P_StopRecording
    \/ P_StartRecording
    \/ P_DrainHeader
    \/ D_ReadArray
    \/ D_Append
    \/ D_Trim
    \/ FW_PauseSample

SpecPause == PauseInit /\ [][PauseNext]_vars

\* C39 as the claim states it: also when recording was paused and resumed
\* while the firmware went on producing, the samples a drain reads are the
\* ones that follow the last sample read before, in production order, never
\* slots the firmware has written a second time meanwhile; and the window
\* goes on holding every sample once and in order.
C39_DrainAfterPause_AsStated ==
    /\ [](d_pc = "header" => WindowIsProductionPrefix)
    /\ [][(d_pc = "array" /\ d_pc' = "append") =>
              data' = [i \in 1..Len(data') |-> fetched + i]]_vars

============================================================================
